---------------------------- MODULE Spec2Model ----------------------------
(***************************************************************************)
(* Verification model of the Defi-Rain rollup core:                        *)
(*   - MerkleTree          (src/src/utils/merkle.js)                       *)
(*   - CrossChainBridge    (src/unnamed/part_003, core/bridge)             *)
(*   - RollupContract      (src/src/contracts/BridgeContract.sol)          *)
(*   - RollupManager       (src/src/core/rollup.js)                        *)
(* Each component has its own specification (SpecMerkle, SpecBridge,       *)
(* SpecContract, SpecRollup); the variables of the other components stay   *)
(* at their constructed values.                                            *)
(***************************************************************************)
EXTENDS Integers, Sequences, FiniteSets, TLC

(***************************************************************************)
(* Bounds of the model.                                                    *)
(***************************************************************************)
\* longest leaf list a MerkleTree is built from or grown to
MaxLeaves == 5
\* number of distinct leaf payloads fed to the MerkleTree
NumLeafData == 2
\* withdrawals the bridge creates
MaxWithdrawals == 2
\* deposit records, and deposit calls
MaxDeposits == 2
MaxDepositCalls == 3
\* appends to the event list after its initial filling
MaxEvSteps == 5
\* the bridge clock covers the first BridgeSlack ms and as many ms around the unlock times
BridgeSlack == 0

\* batches the settlement contract accepts in one run
MaxCBatches == 2
\* config.rollup.batchSize of the coordinator under test
batchSize == 2
\* transactions addTransaction accepts in one run
MaxTx == 2
\* last clock value (ms) of the coordinator's process
MaxRTime == 1
\* last clock value (ms) of the validator registry's process
MaxVTime == 1
\* updatePerformance calls counted for one validator
MaxPerf == 3
\* last block timestamp the contract model explores
MaxCTime == 2
MaxBTime == 1
MaxBDeposits == 2
MaxBWithdrawals == 2
MaxProposals == 1
MaxGTime == 1

(***************************************************************************)
(* Program constants.                                                      *)
(***************************************************************************)
\* RollupContract: MAX_CHALLENGE_PERIOD = 7 days, in seconds
MAX_CHALLENGE_PERIOD == 604800
\* RollupContract: MIN_STAKE = 1 ether, in ether
MIN_STAKE == 1
\* RollupContract: MAX_BATCH_SIZE
MAX_BATCH_SIZE == 1000
\* bridge: this.withdrawalDelay = 7 * 24 * 60 * 60 (seconds)
withdrawalDelay == 604800
\* bridge: this.minDepositAmount = parseEther('0.001'), in units of 0.0001 ether
minDepositAmount == 10
\* bridge: this.maxDepositAmount = parseEther('1000'), in the same units
maxDepositAmount == 10000000
\* the length of a keccak256 hex string, '0x' and 64 digits
KeccakLen == 66
\* bridge: addBridgeEvent keeps the last 1000 events
EventCap == 1000
\* ValidatorManager: this.minimumStake defaults to 1 ETH; in units of 0.5 ETH
vmMinimumStake == 2
\* ValidatorManager: the length validatePublicKey requires
PublicKeyLen == 130

VARIABLES
    \* ---- MerkleTree instance (merkle.js) ----
    mtLeaves,       \* this.leaves: hashed leaves
    mtTree,         \* this.tree
    mtRoot,         \* this.root
    mtLast,         \* outcome of the last getProof / verifyProof call
    \* ---- CrossChainBridge instance (part_003) ----
    bnow,           \* Date.now() of the bridge process, ms
    bridgeReady,    \* layer1Contract / layer2Contract are set
    withdrawals,    \* this.withdrawals, in creation order
    bridgeEvents,   \* this.bridgeEvents
    bRand,          \* Math.random() draws used for transaction references
    cwCalls,        \* completeWithdrawal calls, each idle or at its await
    cwLast,         \* history: the completeWithdrawal call that returned last
    \* ---- RollupContract (BridgeContract.sol, second contract) ----
    ctime,              \* block.timestamp
    cBatches,           \* batches[0 .. batchCounter-1]
    cValidators,        \* validators
    cValidatorStakes,   \* validatorStakes, in ether
    currentStateRoot,   \* 0 is bytes32(0)
    challengePeriod,
    minimumStake,
    cPaused,            \* Pausable
    cLast,              \* history: the last challengeBatch or finalizeBatch sent
    \* ---- RollupManager instance (rollup.js) ----
    rnow,                   \* Date.now() of the coordinator's process, ms
    rContract,              \* this.contract is set
    rStateRoot,             \* this.stateRoot
    pendingTransactions,    \* this.pendingTransactions
    batches,                \* this.batches, a Map in insertion order
    rBatchCounter,          \* this.batchCounter
    rmCalls,                \* addTransaction / createBatch calls at their awaits
    rHist,                  \* history: queued transactions, drains, formed ids,
                            \* and whether a drain ran before initialize()
    rLast,                  \* history: the call that returned last
    \* ---- ValidatorManager instance (part_002) ----
    vnow,                   \* Date.now() of the registry's process, ms
    vmValidators,           \* this.validators, address -> validator object
    vmStakes,               \* this.stakes, address -> stake
    vmPerformance,          \* this.performance, address -> performance object
    vmLast,                 \* history: the call that returned last
    \* ---- CrossChainBridge deposits (part_003) ----
    deposits,               \* this.deposits, a Map in insertion order
    dLast,                  \* history: the deposit call made last
    \* ---- CrossChainBridge.addBridgeEvent on its own (part_003) ----
    evRing,                 \* this.bridgeEvents
    evLog,                  \* history: every event appended, in order
    \* ---- BridgeContract (BridgeContract.sol, first contract) ----
    btime,                  \* block.timestamp - withdrawalDelay
    supportedTokens,        \* the tokens with supportedTokens[token] = true
    tokenBalances,          \* tokenBalances, token -> recorded balance
    bcHoldings,             \* what the contract holds: address(this).balance
                            \* and IERC20(token).balanceOf(address(this))
    depositCounter,
    bcWithdrawals,          \* withdrawals[id] in the order of withdrawalCounter
    \* ---- ConsensusManager instance (consensus.js) ----
    gnow,                   \* Date.now() of the governance process, ms
    proposals,              \* this.proposals with this.votes, in creation order
    epCalls,                \* executeProposal calls, each idle or at its await
    gLast                   \* history: the call that returned last

merkleVars == <<mtLeaves, mtTree, mtRoot, mtLast>>
bridgeVars == <<bnow, bridgeReady, withdrawals, bridgeEvents, bRand, cwCalls, cwLast>>
contractVars == <<ctime, cBatches, cValidators, cValidatorStakes, currentStateRoot,
                  challengePeriod, minimumStake, cPaused, cLast>>

rollupVars == <<rnow, rContract, rStateRoot, pendingTransactions, batches,
                rBatchCounter, rmCalls, rHist, rLast>>

validatorVars == <<vnow, vmValidators, vmStakes, vmPerformance, vmLast>>

depositVars == <<deposits, dLast>>

eventVars == <<evRing, evLog>>

bcVars == <<btime, supportedTokens, tokenBalances, bcHoldings, depositCounter,
            bcWithdrawals>>

consensusVars == <<gnow, proposals, epCalls, gLast>>

vars == <<merkleVars, bridgeVars, contractVars, rollupVars, validatorVars,
          depositVars, eventVars,
    bcVars,
    consensusVars>>

notMerkle == <<bridgeVars, contractVars, rollupVars, validatorVars, depositVars,
    eventVars,
    bcVars,
    consensusVars>>
notBridge == <<merkleVars, contractVars, rollupVars, validatorVars, depositVars,
    eventVars,
    bcVars,
    consensusVars>>
notContract == <<merkleVars, bridgeVars, rollupVars, validatorVars, depositVars,
    eventVars,
    bcVars,
    consensusVars>>
notRollup == <<merkleVars, bridgeVars, contractVars, validatorVars, depositVars,
    eventVars,
    bcVars,
    consensusVars>>
notValidator == <<merkleVars, bridgeVars, contractVars, rollupVars, depositVars,
    eventVars,
    bcVars,
    consensusVars>>
notDeposit == <<merkleVars, contractVars, rollupVars, validatorVars, eventVars,
    bcVars,
    consensusVars>>
notEvents == <<merkleVars, bridgeVars, contractVars, rollupVars, validatorVars,
               depositVars,
    bcVars,
    consensusVars>>
notBC == <<merkleVars, bridgeVars, contractVars, rollupVars, validatorVars,
           depositVars, eventVars,
    consensusVars>>
notConsensus == <<merkleVars, bridgeVars, contractVars, rollupVars, validatorVars,
                  depositVars, eventVars, bcVars>>

(***************************************************************************)
(* JavaScript values that the code compares with === or hands to a         *)
(* library: null, a string, an array.  A hash string is carried in val as  *)
(* a one-element sequence, an array as the sequence of its elements.       *)
(***************************************************************************)
JSNull == [kind |-> "null", val |-> <<>>]
JSString(h) == [kind |-> "string", val |-> <<h>>]
JSArray(a) == [kind |-> "array", val |-> a]

\* a === b for two such values (an array is never === a string; two
\* distinct array objects are never ===, and the code compares a fresh
\* string against the stored root only)
StrictEq(a, b) ==
    /\ a.kind = b.kind
    /\ a.kind # "array"
    /\ a.val = b.val

(***************************************************************************)
(* SHA-256 digests as terms of a free algebra: no two different inputs     *)
(* collide.  <<"L", d>> is the digest of leaf data d, <<"N", a, b>> the    *)
(* digest of the bytes of a followed by the bytes of b.                    *)
(***************************************************************************)
RECURSIVE HLess(_, _)
\* left < right on two hex digests: a total order on the terms
HLess(a, b) ==
    IF Len(a) # Len(b) THEN Len(a) < Len(b)
    ELSE IF Len(a) = 2 THEN a[2] < b[2]
    ELSE IF a[2] # b[2] THEN HLess(a[2], b[2])
    ELSE HLess(a[3], b[3])

\* merkle.js hashLeaf
hashLeaf(data) == <<"L", data>>

\* hashNodes combining left and right as given
hashNodes_Unsorted(left, right) == <<"N", left, right>>

\* merkle.js hashNodes: combined = left < right ? left + right : right + left
hashNodes(left, right) ==
    IF HLess(left, right) THEN <<"N", left, right>> ELSE <<"N", right, left>>

\* one pass of the for loop of buildTree: pairs (i, i+1), an odd trailing
\* node is paired with itself
NextLevel(cur) ==
    [k \in 1..((Len(cur) + 1) \div 2) |->
        LET left == cur[2 * k - 1]
            right == IF 2 * k <= Len(cur) THEN cur[2 * k] ELSE left
        IN  hashNodes(left, right)]

RECURSIVE BuildLevels(_)
\* the while loop of buildTree: tree = [level0, level1, ..., [top]]
BuildLevels(cur) ==
    IF Len(cur) <= 1 THEN <<cur>>
    ELSE <<cur>> \o BuildLevels(NextLevel(cur))

\* merkle.js buildTree: [] for no leaf, the flat array [leaf] for one leaf,
\* the array of levels otherwise
buildTree(leaves) ==
    IF Len(leaves) = 0 THEN <<>>
    ELSE IF Len(leaves) = 1 THEN <<leaves[1]>>
    ELSE BuildLevels(leaves)

\* this.root = this.tree.length > 0 ? this.tree[this.tree.length - 1] : null
\* The last element of the tree is a string when the tree is the flat
\* one-leaf array and the top LEVEL (an array) otherwise.
TreeRoot(leaves) ==
    LET tree == buildTree(leaves) IN
    IF Len(tree) = 0 THEN JSNull
    ELSE IF Len(leaves) = 1 THEN JSString(tree[Len(tree)])
    ELSE JSArray(tree[Len(tree)])

\* new MerkleTree(leaves): every given leaf is hashed by hashLeaf
MerkleTreeOf(data) ==
    LET hashed == [i \in 1..Len(data) |-> hashLeaf(data[i])] IN
    [leaves |-> hashed, tree |-> buildTree(hashed), root |-> TreeRoot(hashed)]

RECURSIVE ProofFrom(_, _, _)
\* the while loop of getProof from level lvl (1-based) with the 0-based
\* currentIndex idx; a missing sibling contributes no proof node
ProofFrom(tree, lvl, idx) ==
    IF lvl >= Len(tree) THEN <<>>
    ELSE
        LET level == tree[lvl]
            isLeft == idx % 2 = 0
            siblingIndex == IF isLeft THEN idx + 1 ELSE idx - 1
            node == IF siblingIndex < Len(level)
                    THEN <<[hash |-> level[siblingIndex + 1],
                            position |-> IF isLeft THEN "right" ELSE "left"]>>
                    ELSE <<>>
        IN  node \o ProofFrom(tree, lvl + 1, idx \div 2)

\* merkle.js getProof(index), index 0-based
getProof(leaves, tree, index) ==
    IF index < 0 \/ index >= Len(leaves)
    THEN [threw |-> TRUE, proof |-> <<>>]
    ELSE [threw |-> FALSE, proof |-> ProofFrom(tree, 1, index)]

RECURSIVE FoldProof(_, _, _)
\* the for loop of verifyProof from proof node k on
FoldProof(cur, proof, k) ==
    IF k > Len(proof) THEN cur
    ELSE FoldProof(
            IF proof[k].position = "left"
            THEN hashNodes(proof[k].hash, cur)
            ELSE hashNodes(cur, proof[k].hash),
            proof, k + 1)

\* merkle.js verifyProof(leaf, proof, root): "true", "false" or "throws".
\* After the comparison the debug log evaluates root.substring(0, 16),
\* which is a TypeError for a root that is null or an array.
verifyProof(leaf, proof, root) ==
    LET currentHash == FoldProof(leaf, proof, 1)
        isValid == StrictEq(JSString(currentHash), root)
    IN  IF root.kind # "string" THEN "throws"
        ELSE IF isValid THEN "true" ELSE "false"

(***************************************************************************)
(* MerkleTree as a state machine: a tree constructed from a bounded leaf   *)
(* list, then getProof / verifyProof / addLeaf calls.                      *)
(***************************************************************************)
LeafData == 1..NumLeafData

LeafLists == UNION {[1..n -> LeafData] : n \in 0..MaxLeaves}

NoMerkleCall == [op |-> "none", index |-> 0, threw |-> FALSE,
                 proof |-> <<>>, result |-> "none"]

MerkleIdle ==
    /\ mtLeaves = <<>>
    /\ mtTree = <<>>
    /\ mtRoot = JSNull
    /\ mtLast = NoMerkleCall

MerkleInit ==
    \E data \in LeafLists :
        LET t == MerkleTreeOf(data) IN
        /\ mtLeaves = t.leaves
        /\ mtTree = t.tree
        /\ mtRoot = t.root
        /\ mtLast = NoMerkleCall

\* getProof(index) followed by verifyProof(leaves[index], proof, getRoot())
MtRoundTrip(index) ==
    LET p == getProof(mtLeaves, mtTree, index) IN
    /\ mtLast' = [op |-> "roundtrip", index |-> index, threw |-> p.threw,
                  proof |-> p.proof,
                  result |-> IF p.threw THEN "none"
                             ELSE verifyProof(mtLeaves[index + 1], p.proof, mtRoot)]
    /\ UNCHANGED <<mtLeaves, mtTree, mtRoot>>
    /\ UNCHANGED notMerkle

\* merkle.js addLeaf(data).  With two or more leaves buildTree logs
\* this.root?.substring(0, 16), the root of before the call: a TypeError
\* when that root is an array, thrown after the push and before this.tree
\* and this.root are assigned.  addLeaf logs the new root the same way
\* after it has assigned them.
MtAddLeaf(data) ==
    /\ Len(mtLeaves) < MaxLeaves
    /\ LET leaves == Append(mtLeaves, hashLeaf(data))
           buildThrows == Len(leaves) >= 2 /\ mtRoot.kind = "array"
       IN
        /\ mtLeaves' = leaves
        /\ mtTree' = IF buildThrows THEN mtTree ELSE buildTree(leaves)
        /\ mtRoot' = IF buildThrows THEN mtRoot ELSE TreeRoot(leaves)
        /\ mtLast' = [NoMerkleCall EXCEPT !.op = "addLeaf",
                        !.threw = buildThrows \/ TreeRoot(leaves).kind = "array"]
    /\ UNCHANGED notMerkle

MerkleNext ==
    \/ \E index \in -1..MaxLeaves : MtRoundTrip(index)
    \/ \E data \in LeafData : MtAddLeaf(data)

(***************************************************************************)
(* CrossChainBridge (part_003): withdrawals and completeWithdrawal.        *)
(* Withdrawal ids end in nine random base-36 digits; they are taken to be  *)
(* fresh, so a withdrawal's id is its position in creation order.          *)
(***************************************************************************)
BridgeCallers == 1..2

\* length of a proof string; 0 stands for null
NoProof == 0

\* ethers.keccak256(...) returns '0x' followed by 64 hex digits
generateWithdrawalProof == KeccakLen

\* verifyWithdrawalProof: proof && proof.length === 66
verifyWithdrawalProof(proof) == proof # NoProof /\ proof = KeccakLen

\* the withdrawal is still locked at time t
StillLocked_NoDelay(w, t) == FALSE

StillLocked(w, t) == t < w.unlockTime

\* the synchronous checks of completeWithdrawal before its await, in the
\* order of the code; "none" when all pass
\* completeWithdrawal's checks with the delay check ahead of the status check
CwReject_LockFirst(wid, t) ==
    IF wid \notin DOMAIN withdrawals THEN "not found"
    ELSE IF StillLocked(withdrawals[wid], t) THEN "still locked"
    ELSE IF withdrawals[wid].status # "burned" THEN "not ready"
    ELSE "none"

CwReject(wid, t) ==
    IF wid \notin DOMAIN withdrawals THEN "not found"
    ELSE IF withdrawals[wid].status # "burned" THEN "not ready"
    ELSE IF StillLocked(withdrawals[wid], t) THEN "still locked"
    ELSE "none"

\* a catch block that marks the record failed, as burnTokensOnLayer2's does
CwCatch_Fails(w) == [w EXCEPT !.status = "failed"]

\* the catch block of completeWithdrawal: it logs and rethrows, and leaves
\* the withdrawal as it is
CwCatch(w) == w

\* the withdrawals after a call on withdrawalId has thrown
Caught(wid) ==
    IF wid \in DOMAIN withdrawals
    THEN [withdrawals EXCEPT ![wid] = CwCatch(withdrawals[wid])]
    ELSE withdrawals

\* withdraw's unlockTime with the delay taken as milliseconds
UnlockTime_Seconds(t) == t + withdrawalDelay

\* withdraw: unlockTime: Date.now() + (this.withdrawalDelay * 1000)
UnlockTime(t) == t + withdrawalDelay * 1000

\* addBridgeEvent keeping the first EventCap events instead of the last
addBridgeEvent_KeepOldest(events, type, wid, t) ==
    LET pushed == Append(events, [type |-> type, id |-> wid, timestamp |-> t]) IN
    IF Len(pushed) > EventCap
    THEN SubSeq(pushed, 1, EventCap)
    ELSE pushed

\* addBridgeEvent: push, then keep only the last EventCap events
addBridgeEvent(events, type, wid, t) ==
    LET pushed == Append(events, [type |-> type, id |-> wid, timestamp |-> t]) IN
    IF Len(pushed) > EventCap
    THEN SubSeq(pushed, Len(pushed) - EventCap + 1, Len(pushed))
    ELSE pushed

\* getBridgeEvents(limit): this.bridgeEvents.slice(-limit) for an integer
\* limit >= 0.  slice counts a negative start from the end; -0 is 0, the
\* start of the array
getBridgeEvents(events, limit) ==
    LET start == IF 0 - limit < 0
                 THEN (IF Len(events) - limit > 0 THEN Len(events) - limit ELSE 0)
                 ELSE 0
    IN SubSeq(events, start + 1, Len(events))

\* what a returned call is remembered by: its result, the clock and the
\* withdrawal's status when it started, whether another call on the same
\* withdrawal was in flight during it, and the reference it returned
Returned(wid, res, at, was, ovl, ref) ==
    [wid |-> wid, res |-> res, at |-> at, was |-> was, ovl |-> ovl,
     layer1TxHash |-> ref]

IdleCall == [pc |-> "idle", wid |-> 0, at |-> 0, ovl |-> FALSE]

BridgeInit ==
    /\ bnow = 0
    /\ bridgeReady = FALSE
    /\ withdrawals = <<>>
    /\ bridgeEvents = <<>>
    /\ bRand = 0
    /\ cwCalls = [c \in BridgeCallers |-> IdleCall]
    /\ cwLast = Returned(0, "none", 0, "none", FALSE, 0)

\* the last clock value the model explores
BridgeHorizon == withdrawalDelay * 1000 + BridgeSlack + 1

\* the clock values the model explores: the first milliseconds, and the
\* milliseconds around the unlock times of withdrawals created in them
BridgeClock ==
    (0..BridgeSlack) \cup ((withdrawalDelay * 1000 - 1)..BridgeHorizon)

\* time passes between two synchronous runs of code
BridgeTick ==
    /\ \E t \in BridgeClock :
        /\ t > bnow
        /\ bnow' = t
    /\ UNCHANGED <<bridgeReady, withdrawals, bridgeEvents, bRand, cwCalls, cwLast>>
    /\ UNCHANGED notBridge

\* initialize(): setupProvider may fail (no network), and then the
\* contracts are never set up
BridgeInitialize(providerOk) ==
    /\ bridgeReady' = (bridgeReady \/ providerOk)
    /\ UNCHANGED <<bnow, withdrawals, bridgeEvents, bRand, cwCalls, cwLast>>
    /\ UNCHANGED notBridge

\* withdraw(user, token, amount): validation, the new record, and
\* burnTokensOnLayer2, which runs to its end before withdraw's await.
\* tokenOk: the token address is one encodeFunctionData accepts.
\* skew: the clock may tick between the two Date.now() reads.
\* withdraw returns { withdrawalId, status: 'pending', ... } unless the burn
\* threw; returned is history, the status in that result ("none": it threw).
Withdraw(amount, tokenOk, skew) ==
    /\ Len(withdrawals) < MaxWithdrawals
    /\ bnow + skew \in BridgeClock
    /\ IF amount < minDepositAmount
       THEN UNCHANGED <<bnow, withdrawals, bridgeEvents, bRand>>
       ELSE
           LET wid == Len(withdrawals) + 1
               burnt == bridgeReady /\ tokenOk
               w == [status |-> IF burnt THEN "burned" ELSE "failed",
                     amount |-> amount,
                     timestamp |-> bnow,
                     unlockTime |-> UnlockTime(bnow + skew),
                     layer2TxHash |-> IF burnt THEN bRand + 1 ELSE 0,
                     layer1TxHash |-> 0,
                     proof |-> IF burnt THEN generateWithdrawalProof ELSE NoProof,
                     returned |-> IF burnt THEN "pending" ELSE "none"]
           IN
           /\ withdrawals' = Append(withdrawals, w)
           /\ bnow' = bnow + skew
           /\ bRand' = IF burnt THEN bRand + 1 ELSE bRand
           /\ bridgeEvents' = IF burnt
                THEN addBridgeEvent(bridgeEvents, "withdrawal_initiated", wid, bnow + skew)
                ELSE bridgeEvents
    /\ UNCHANGED <<bridgeReady, cwCalls, cwLast>>
    /\ UNCHANGED notBridge

\* the calls on the same withdrawal that are suspended at their await
InFlight(wid) == {c \in BridgeCallers : cwCalls[c].pc = "await" /\ cwCalls[c].wid = wid}

\* completeWithdrawal(wid) up to  await this.verifyWithdrawalProof(...)
CwBegin(c, wid) ==
    /\ cwCalls[c].pc = "idle"
    /\ LET why == CwReject(wid, bnow)
           was == IF wid \in DOMAIN withdrawals THEN withdrawals[wid].status
                  ELSE "none"
       IN
       IF why # "none"
       THEN /\ cwLast' = Returned(wid, why, bnow, was, InFlight(wid) # {}, 0)
            /\ withdrawals' = Caught(wid)
            /\ UNCHANGED cwCalls
       ELSE /\ cwCalls' = [d \in BridgeCallers |->
                IF d = c THEN [pc |-> "await", wid |-> wid, at |-> bnow,
                               ovl |-> InFlight(wid) # {}]
                ELSE IF d \in InFlight(wid) THEN [cwCalls[d] EXCEPT !.ovl = TRUE]
                ELSE cwCalls[d]]
            /\ UNCHANGED <<cwLast, withdrawals>>
    /\ UNCHANGED <<bnow, bridgeReady, bridgeEvents, bRand>>
    /\ UNCHANGED notBridge

\* completeWithdrawal after the await: the proof verdict, the settlement
\* reference, status 'completed', the event, the return value
CwResume(c) ==
    /\ cwCalls[c].pc = "await"
    /\ LET wid == cwCalls[c].wid
           w == withdrawals[wid]
       IN
       IF ~verifyWithdrawalProof(w.proof)
       THEN /\ cwLast' = Returned(wid, "invalid proof", cwCalls[c].at, "burned",
                                  cwCalls[c].ovl, 0)
            /\ withdrawals' = Caught(wid)
            /\ UNCHANGED <<bridgeEvents, bRand>>
       ELSE /\ withdrawals' = [withdrawals EXCEPT
                    ![wid].layer1TxHash = bRand + 1,
                    ![wid].status = "completed"]
            /\ bRand' = bRand + 1
            /\ bridgeEvents' = addBridgeEvent(bridgeEvents, "withdrawal_completed", wid, bnow)
            /\ cwLast' = Returned(wid, "ok", cwCalls[c].at, "burned",
                                  cwCalls[c].ovl, bRand + 1)
    /\ cwCalls' = [cwCalls EXCEPT ![c] = IdleCall]
    /\ UNCHANGED <<bnow, bridgeReady>>
    /\ UNCHANGED notBridge

BridgeNext ==
    \/ BridgeTick
    \/ \E ok \in BOOLEAN : BridgeInitialize(ok)
    \/ \E amount \in {minDepositAmount - 1, minDepositAmount},
          tokenOk \in BOOLEAN, skew \in 0..1 : Withdraw(amount, tokenOk, skew)
    \/ \E c \in BridgeCallers, wid \in 1..MaxWithdrawals : CwBegin(c, wid)
    \/ \E c \in BridgeCallers : CwResume(c)


(***************************************************************************)
(* RollupContract (BridgeContract.sol 498-826).  A transaction that fails  *)
(* a require reverts: it changes nothing.  Batch index i of the contract   *)
(* is element i + 1 of cBatches; batchCounter is Len(cBatches).            *)
(***************************************************************************)
\* The sequencer and maxBatchSize stay as constructed (updateSequencer and
\* updateMaxBatchSize are not called), and so does the contract's balance
\* (no emergencyWithdraw): it always covers the registered stakes.
Owner == "owner"
sequencer == "seq"
maxBatchSize == MAX_BATCH_SIZE
Addrs == {Owner, sequencer, "v1"}

batchCounter == Len(cBatches)

\* modifier validBatchIndex
validBatchIndex(batchIndex) == batchIndex < batchCounter

\* modifier onlyValidator
onlyValidator(sender) == cValidators[sender]

\* the requires of challengeBatch after its modifiers
ChallengeRequires(batch, now) ==
    /\ ~batch.isChallenged
    /\ ~batch.isFinalized
    /\ now <= batch.timestamp + challengePeriod

\* finalizeBatch without its challenge-window require
FinalizeRequires_NoWindow(batch, now) ==
    ~batch.isFinalized

\* the requires of finalizeBatch after its modifiers
FinalizeRequires(batch, now) ==
    /\ ~batch.isFinalized
    /\ now > batch.timestamp + challengePeriod

\* history of the last challengeBatch or finalizeBatch transaction: who sent
\* it, on which index, and whether it went through
Tx(op, sender, idx, ok) == [op |-> op, sender |-> sender, idx |-> idx, ok |-> ok]

\* the last transaction was neither of the two
NoTx == Tx("none", Owner, 0, FALSE)

ContractIdle ==
    /\ ctime = 0
    /\ cBatches = <<>>
    /\ cValidators = [a \in Addrs |-> FALSE]
    /\ cValidatorStakes = [a \in Addrs |-> 0]
    /\ currentStateRoot = 0
    /\ challengePeriod = 1
    /\ minimumStake = MIN_STAKE
    /\ cPaused = FALSE
    /\ cLast = NoTx

\* constructor(_sequencer, _challengePeriod, _minimumStake)
ContractInit ==
    /\ ctime = 0
    /\ cBatches = <<>>
    /\ cValidators = [a \in Addrs |-> FALSE]
    /\ cValidatorStakes = [a \in Addrs |-> 0]
    /\ currentStateRoot = 0
    /\ challengePeriod \in {p \in {1, MAX_CHALLENGE_PERIOD + 1} : p <= MAX_CHALLENGE_PERIOD}
    /\ minimumStake \in {m \in {0, MIN_STAKE} : m >= MIN_STAKE}
    /\ cPaused = FALSE
    /\ cLast = NoTx

\* a new block: block.timestamp grows
RC_Tick ==
    /\ ctime < MaxCTime
    /\ ctime' = ctime + 1
    /\ cLast' = NoTx
    /\ UNCHANGED <<cBatches, cValidators, cValidatorStakes, currentStateRoot,
                   challengePeriod, minimumStake, cPaused>>
    /\ UNCHANGED notContract

\* submitBatch(stateRoot, merkleRoot, batchData); dataLen is batchData.length
RC_submitBatch(sender, stateRoot, merkleRoot, dataLen) ==
    LET ok == /\ sender = sequencer
              /\ ~cPaused
              /\ stateRoot # 0
              /\ merkleRoot # 0
              /\ dataLen > 0
              /\ dataLen <= maxBatchSize * 32
    IN
    /\ Len(cBatches) < MaxCBatches
    /\ cBatches' = IF ok
         THEN Append(cBatches, [stateRoot |-> stateRoot, merkleRoot |-> merkleRoot,
                                timestamp |-> ctime, sequencer |-> sender,
                                isChallenged |-> FALSE, isFinalized |-> FALSE])
         ELSE cBatches
    /\ cLast' = NoTx
    /\ UNCHANGED <<ctime, cValidators, cValidatorStakes, currentStateRoot,
                   challengePeriod, minimumStake, cPaused>>
    /\ UNCHANGED notContract

\* challengeBatch(batchIndex, reason)
RC_challengeBatch(sender, batchIndex) ==
    LET ok == /\ onlyValidator(sender)
              /\ validBatchIndex(batchIndex)
              /\ ~cPaused
              /\ ChallengeRequires(cBatches[batchIndex + 1], ctime)
    IN
    /\ cBatches' = IF ok
         THEN [cBatches EXCEPT ![batchIndex + 1].isChallenged = TRUE]
         ELSE cBatches
    /\ cLast' = Tx("challengeBatch", sender, batchIndex, ok)
    /\ UNCHANGED <<ctime, cValidators, cValidatorStakes, currentStateRoot,
                   challengePeriod, minimumStake, cPaused>>
    /\ UNCHANGED notContract

\* finalizeBatch taking the root of a challenged batch as well
RootAfterFinalize_Always(batch, root) == batch.stateRoot

\* finalizeBatch: if (!batch.isChallenged) currentStateRoot = batch.stateRoot
RootAfterFinalize(batch, root) ==
    IF ~batch.isChallenged THEN batch.stateRoot ELSE root

\* finalizeBatch(batchIndex)
RC_finalizeBatch(batchIndex) ==
    LET ok == /\ validBatchIndex(batchIndex)
              /\ ~cPaused
              /\ FinalizeRequires(cBatches[batchIndex + 1], ctime)
    IN
    /\ IF ok
       THEN /\ currentStateRoot' =
                 RootAfterFinalize(cBatches[batchIndex + 1], currentStateRoot)
            /\ cBatches' = [cBatches EXCEPT ![batchIndex + 1].isFinalized = TRUE]
       ELSE UNCHANGED <<currentStateRoot, cBatches>>
    /\ cLast' = Tx("finalizeBatch", Owner, batchIndex, ok)
    /\ UNCHANGED <<ctime, cValidators, cValidatorStakes,
                   challengePeriod, minimumStake, cPaused>>
    /\ UNCHANGED notContract

\* registerValidator() payable, value is msg.value
RC_registerValidator(sender, value) ==
    LET ok == /\ ~cPaused
              /\ value >= minimumStake
              /\ ~cValidators[sender]
    IN
    /\ IF ok
       THEN /\ cValidators' = [cValidators EXCEPT ![sender] = TRUE]
            /\ cValidatorStakes' = [cValidatorStakes EXCEPT ![sender] = value]
       ELSE UNCHANGED <<cValidators, cValidatorStakes>>
    /\ cLast' = NoTx
    /\ UNCHANGED <<ctime, cBatches, currentStateRoot, challengePeriod,
                   minimumStake, cPaused>>
    /\ UNCHANGED notContract

\* unregisterValidator(): the contract holds every registered stake, so the
\* transfer goes through
RC_unregisterValidator(sender) ==
    LET stake == cValidatorStakes[sender]
        ok == /\ onlyValidator(sender)
              /\ ~cPaused
              /\ stake > 0
    IN
    /\ IF ok
       THEN /\ cValidators' = [cValidators EXCEPT ![sender] = FALSE]
            /\ cValidatorStakes' = [cValidatorStakes EXCEPT ![sender] = 0]
       ELSE UNCHANGED <<cValidators, cValidatorStakes>>
    /\ cLast' = NoTx
    /\ UNCHANGED <<ctime, cBatches, currentStateRoot, challengePeriod,
                   minimumStake, cPaused>>
    /\ UNCHANGED notContract

\* updateChallengePeriod(newChallengePeriod)
RC_updateChallengePeriod(sender, newChallengePeriod) ==
    LET ok == /\ sender = Owner
              /\ newChallengePeriod <= MAX_CHALLENGE_PERIOD
              /\ newChallengePeriod # challengePeriod
    IN
    /\ challengePeriod' = IF ok THEN newChallengePeriod ELSE challengePeriod
    /\ cLast' = NoTx
    /\ UNCHANGED <<ctime, cBatches, cValidators, cValidatorStakes, currentStateRoot,
                   minimumStake, cPaused>>
    /\ UNCHANGED notContract

\* updateMinimumStake(newMinimumStake)
RC_updateMinimumStake(sender, newMinimumStake) ==
    LET ok == /\ sender = Owner
              /\ newMinimumStake >= MIN_STAKE
              /\ newMinimumStake # minimumStake
    IN
    /\ minimumStake' = IF ok THEN newMinimumStake ELSE minimumStake
    /\ cLast' = NoTx
    /\ UNCHANGED <<ctime, cBatches, cValidators, cValidatorStakes, currentStateRoot,
                   challengePeriod, cPaused>>
    /\ UNCHANGED notContract

\* pause() / unpause(): _pause requires not paused, _unpause requires paused
RC_pause(sender, toPaused) ==
    LET ok == sender = Owner /\ cPaused # toPaused IN
    /\ cPaused' = IF ok THEN toPaused ELSE cPaused
    /\ cLast' = NoTx
    /\ UNCHANGED <<ctime, cBatches, cValidators, cValidatorStakes, currentStateRoot,
                   challengePeriod, minimumStake>>
    /\ UNCHANGED notContract

\* the arguments submitBatch is called with: a batch the contract accepts
\* (its stateRoot names it), and one call failing each require in turn
SubmitInputs ==
    LET good == [sender |-> sequencer, stateRoot |-> Len(cBatches) + 1,
                 merkleRoot |-> 1, dataLen |-> 1]
    IN {good,
        [good EXCEPT !.sender = "v1"],
        [good EXCEPT !.stateRoot = 0],
        [good EXCEPT !.merkleRoot = 0],
        [good EXCEPT !.dataLen = 0],
        [good EXCEPT !.dataLen = MAX_BATCH_SIZE * 32 + 1]}

ContractNext ==
    \/ RC_Tick
    \/ \E args \in SubmitInputs :
            RC_submitBatch(args.sender, args.stateRoot, args.merkleRoot, args.dataLen)
    \/ \E sender \in {sequencer, "v1"}, batchIndex \in 0..MaxCBatches :
            RC_challengeBatch(sender, batchIndex)
    \/ \E batchIndex \in 0..MaxCBatches : RC_finalizeBatch(batchIndex)
    \/ \E value \in {0, 1, 2} : RC_registerValidator("v1", value)
    \/ \E sender \in {sequencer, "v1"} : RC_unregisterValidator(sender)
    \/ \E sender \in {Owner, "v1"},
          newChallengePeriod \in {1, 2, MAX_CHALLENGE_PERIOD + 1} :
            RC_updateChallengePeriod(sender, newChallengePeriod)
    \/ \E sender \in {Owner, "v1"}, newMinimumStake \in {0, 1, 2} :
            RC_updateMinimumStake(sender, newMinimumStake)
    \/ \E sender \in {Owner, "v1"}, toPaused \in BOOLEAN : RC_pause(sender, toPaused)


(***************************************************************************)
(* RollupManager (rollup.js).  A call runs without interruption up to its  *)
(* next await; other calls may run while it is suspended there.            *)
(***************************************************************************)
RmCallers == 1..2

\* a 0x-prefixed hex string such as ethers.keccak256 returns
JSHex(h) == [kind |-> "hex", val |-> <<h>>]

\* ethers getBytes: a Uint8Array or a 0x-prefixed hex string of even length;
\* anything else (null, an unprefixed digest, an array of strings) makes
\* ethers.concat throw "invalid BytesLike value"
IsBytesLike(v) == v.kind = "hex"

\* ethers.ZeroHash
ZeroHash == <<"Z">>

\* field values of a submitted transaction: Missing is an absent field, 0 a
\* present but falsy value (0, ''), a positive number a truthy value; the
\* signature is given by its length
Missing == -1
SigLen == 132

GoodTx(n) ==
    [from |-> 1, to |-> 1, value |-> 1, data |-> 1, nonce |-> n, signature |-> SigLen]

TxInputs ==
    {GoodTx(1)}
    \cup {[GoodTx(1) EXCEPT !.nonce = 0],
          [GoodTx(1) EXCEPT !.value = 0],
          [GoodTx(1) EXCEPT !.data = 0],
          [GoodTx(1) EXCEPT !.from = Missing],
          [GoodTx(1) EXCEPT !.signature = Missing],
          [GoodTx(1) EXCEPT !.signature = 10]}

\* verifySignature: transaction.signature && transaction.signature.length === 132
verifySignature(tx) == tx.signature > 0 /\ tx.signature = SigLen

\* validateTransaction without its signature check
validateTransaction_NoSignature(tx) ==
    \A f \in {"from", "to", "value", "data", "nonce", "signature"} : tx[f] > 0

\* validateTransaction: !transaction[field] rejects an absent and a falsy field
validateTransaction(tx) ==
    /\ \A f \in {"from", "to", "value", "data", "nonce", "signature"} : tx[f] > 0
    /\ verifySignature(tx)

\* what addTransaction pushes: the transaction with id, timestamp and status
\* added; rnd stands for the random suffix of generateTransactionId
Queued(tx, t, rnd) ==
    [from |-> tx.from, to |-> tx.to, value |-> tx.value, data |-> tx.data,
     nonce |-> tx.nonce, signature |-> tx.signature,
     id |-> <<t, rnd>>, timestamp |-> t, status |-> "pending"]

\* ethers.keccak256(toUtf8Bytes(JSON.stringify(tx))) as a number: different
\* JSON texts of queued transactions give different numbers
KeccakTx(q) ==
    ((((((q.from * 2 + q.to) * 2 + q.value) * 2 + q.data) * 2
        + q.nonce) * (MaxRTime + 1) + q.timestamp) * 3) + q.id[2]

\* generateBatchId: 'batch_' + this.batchCounter + '_' + Date.now()
generateBatchId(counter, t) == <<counter, t>>

\* calculateBatchRoots(batch) run with this.stateRoot = root: the batch with
\* its roots, and whether the call threw.  merkleRoot is assigned first;
\* ethers.concat then needs this.stateRoot and merkleRoot to be BytesLike.
calculateBatchRoots(batch, root) ==
    LET transactionHashes ==
            [i \in 1..Len(batch.transactions) |-> KeccakTx(batch.transactions[i])]
        merkleRoot == MerkleTreeOf(transactionHashes).root
    IN
    IF IsBytesLike(root) /\ IsBytesLike(merkleRoot)
    THEN [threw |-> FALSE,
          batch |-> [batch EXCEPT
                !.merkleRoot = merkleRoot,
                !.stateRoot = JSHex(<<"K", root.val[1], merkleRoot.val[1], batch.id>>)]]
    ELSE [threw |-> TRUE, batch |-> [batch EXCEPT !.merkleRoot = merkleRoot]]

\* this.batches.set(id, batch): a Map keeps the place of a key it already has
MapSet(map, batch) ==
    IF \E i \in 1..Len(map) : map[i].id = batch.id
    THEN [i \in 1..Len(map) |-> IF map[i].id = batch.id THEN batch ELSE map[i]]
    ELSE Append(map, batch)

NoBatch == [id |-> <<-1, -1>>, transactions |-> <<>>, stateRoot |-> JSNull,
            merkleRoot |-> JSNull, timestamp |-> 0, status |-> "none"]

RmIdle == [pc |-> "idle", op |-> "none", batch |-> NoBatch, threw |-> FALSE,
           ovl |-> FALSE, prev |-> JSNull]

\* the batch stored under an id, NoBatch when there is none
Stored(map, id) ==
    IF \E i \in 1..Len(map) : map[i].id = id
    THEN map[CHOOSE i \in 1..Len(map) : map[i].id = id]
    ELSE NoBatch

\* what a returned call is remembered by: its result, whether another call
\* was in flight during it, the id of the batch it formed, this.stateRoot
\* before it drained and on its return, and the batch stored under its id
\* on its return
RmReturned(op, res, call, map, root) ==
    [op |-> op, res |-> res, ovl |-> call.ovl, batchId |-> call.batch.id,
     prev |-> call.prev, root |-> root, stored |-> Stored(map, call.batch.id)]

RollupInit ==
    /\ rnow = 0
    /\ rContract = FALSE
    /\ rStateRoot = JSNull
    /\ pendingTransactions = <<>>
    /\ batches = <<>>
    /\ rBatchCounter = 0
    /\ rmCalls = [c \in RmCallers |-> RmIdle]
    /\ rHist = [arrived |-> <<>>, drains |-> 0, formed |-> <<>>, cold |-> FALSE]
    /\ rLast = RmReturned("none", "none", RmIdle, <<>>, JSNull)

\* time passes between two synchronous runs of code
RmTick ==
    /\ rnow < MaxRTime
    /\ rnow' = rnow + 1
    /\ UNCHANGED <<rContract, rStateRoot, pendingTransactions, batches,
                   rBatchCounter, rmCalls, rHist, rLast>>
    /\ UNCHANGED notRollup

\* initialize(): setupProvider may fail (no network); otherwise setupContract
\* sets this.contract and loadState sets this.stateRoot = ZeroHash
RmInitialize(providerOk) ==
    /\ rContract' = (rContract \/ providerOk)
    /\ rStateRoot' = IF providerOk THEN JSHex(ZeroHash) ELSE rStateRoot
    /\ UNCHANGED <<rnow, pendingTransactions, batches, rBatchCounter, rmCalls,
                   rHist, rLast>>
    /\ UNCHANGED notRollup

\* the calls suspended at an await
RmInFlight == {c \in RmCallers : rmCalls[c].pc # "idle"}

\* no transaction was pushed by the caller of createBatch
NoTransaction == Queued(GoodTx(1), -1, 0)

\* createBatch on the non-empty queue, up to  await this.calculateBatchRoots:
\* the drain, the id, the batch object and the body of calculateBatchRoots.
\* The call of caller c is left suspended with its batch.  pushed is the
\* transaction addTransaction pushed just before (history only).
CreateSync(c, op, queue, pushed) ==
    LET batchTransactions == SubSeq(queue, 1, IF Len(queue) < batchSize
                                              THEN Len(queue) ELSE batchSize)
        batchId == generateBatchId(rBatchCounter, rnow)
        batch == [id |-> batchId, transactions |-> batchTransactions,
                  stateRoot |-> JSNull, merkleRoot |-> JSNull,
                  timestamp |-> rnow, status |-> "pending"]
        roots == calculateBatchRoots(batch, rStateRoot)
    IN
    /\ pendingTransactions' = SubSeq(queue, Len(batchTransactions) + 1, Len(queue))
    /\ rmCalls' = [d \in RmCallers |->
            IF d = c THEN [pc |-> "roots", op |-> op, batch |-> roots.batch,
                           threw |-> roots.threw, ovl |-> RmInFlight # {},
                           prev |-> rStateRoot]
            ELSE IF d \in RmInFlight THEN [rmCalls[d] EXCEPT !.ovl = TRUE]
            ELSE rmCalls[d]]
    /\ rHist' = [rHist EXCEPT !.drains = @ + 1, !.formed = Append(@, batchId),
                              !.cold = @ \/ ~rContract,
                              !.arrived = IF pushed = NoTransaction THEN @
                                          ELSE Append(@, pushed)]

\* addTransaction(transaction) up to its first await, or to its return
addTransaction(c, tx, rnd) ==
    /\ rmCalls[c].pc = "idle"
    /\ Len(rHist.arrived) < MaxTx
    /\ IF ~validateTransaction(tx)
       THEN /\ rLast' = RmReturned("addTransaction", "rejected", RmIdle, batches, rStateRoot)
            /\ UNCHANGED <<pendingTransactions, rmCalls, rHist>>
       ELSE LET queue == Append(pendingTransactions, Queued(tx, rnow, rnd)) IN
            IF Len(queue) >= batchSize
            THEN /\ CreateSync(c, "addTransaction", queue, queue[Len(queue)])
                 /\ UNCHANGED rLast
            ELSE /\ pendingTransactions' = queue
                 /\ rHist' = [rHist EXCEPT !.arrived = Append(@, queue[Len(queue)])]
                 /\ rLast' = RmReturned("addTransaction", "accepted", RmIdle, batches, rStateRoot)
                 /\ UNCHANGED rmCalls
    /\ UNCHANGED <<rnow, rContract, rStateRoot, batches, rBatchCounter>>
    /\ UNCHANGED notRollup

\* createBatch() called on its own, up to its first await or to its return
createBatch(c) ==
    /\ rmCalls[c].pc = "idle"
    /\ IF Len(pendingTransactions) = 0
       THEN /\ rLast' = RmReturned("createBatch", "empty", RmIdle, batches, rStateRoot)
            /\ UNCHANGED <<pendingTransactions, rmCalls, rHist>>
       ELSE /\ CreateSync(c, "createBatch", pendingTransactions, NoTransaction)
            /\ UNCHANGED rLast
    /\ UNCHANGED <<rnow, rContract, rStateRoot, batches, rBatchCounter>>
    /\ UNCHANGED notRollup

\* submitBatchToLayer1(batch): this.contract.address is a TypeError while
\* this.contract is null, and the catch marks the batch 'failed'
submitBatchToLayer1(batch) ==
    IF rContract
    THEN [threw |-> FALSE, batch |-> [batch EXCEPT !.status = "submitted"]]
    ELSE [threw |-> TRUE, batch |-> [batch EXCEPT !.status = "failed"]]

\* createBatch resumed after  await this.calculateBatchRoots(batch): a throw
\* is passed on; otherwise the batch is stored, the counter grows and
\* submitBatchToLayer1 runs up to createBatch's second await
CbAfterRoots(c) ==
    /\ rmCalls[c].pc = "roots"
    /\ IF rmCalls[c].threw
       THEN /\ rmCalls' = [rmCalls EXCEPT ![c].pc = "return"]
            /\ UNCHANGED <<batches, rBatchCounter, rStateRoot>>
       ELSE LET sub == submitBatchToLayer1(rmCalls[c].batch) IN
            /\ batches' = MapSet(batches, sub.batch)
            /\ rBatchCounter' = rBatchCounter + 1
            /\ rStateRoot' = IF sub.threw THEN rStateRoot ELSE sub.batch.stateRoot
            /\ rmCalls' = [rmCalls EXCEPT ![c].pc = "return", ![c].threw = sub.threw,
                                          ![c].batch = sub.batch]
    /\ UNCHANGED <<rnow, rContract, pendingTransactions, rHist, rLast>>
    /\ UNCHANGED notRollup

\* the call returns to its caller: createBatch after its last await, and
\* addTransaction after  await this.createBatch()
RmReturn(c) ==
    /\ rmCalls[c].pc = "return"
    /\ rLast' = RmReturned(rmCalls[c].op,
                           IF rmCalls[c].threw THEN "threw" ELSE "ok", rmCalls[c],
                           batches, rStateRoot)
    /\ UNCHANGED rHist
    /\ rmCalls' = [rmCalls EXCEPT ![c] = RmIdle]
    /\ UNCHANGED <<rnow, rContract, rStateRoot, pendingTransactions, batches,
                   rBatchCounter>>
    /\ UNCHANGED notRollup

RollupNext ==
    \/ RmTick
    \/ \E ok \in BOOLEAN : RmInitialize(ok)
    \/ \E c \in RmCallers, tx \in TxInputs, rnd \in 1..2 : addTransaction(c, tx, rnd)
    \/ \E c \in RmCallers : createBatch(c)
    \/ \E c \in RmCallers : CbAfterRoots(c)
    \/ \E c \in RmCallers : RmReturn(c)

(***************************************************************************)
(* ValidatorManager (part_002).  Its methods have no await: each call runs *)
(* from start to end without interruption.  A Map is a function whose      *)
(* domain is the set of its keys.                                          *)
(***************************************************************************)
VmAddrs == {"a1", "a2"}

\* a JavaScript number that is not a number; the other stakes are naturals
NaN == -1

\* the stake of a call made without one; a comparison converts it to NaN
Undefined == -2

\* the value is a number other than NaN
IsNumber(a) == a \notin {NaN, Undefined}

\* a < b on JavaScript values: false whenever an operand converts to NaN
JSLess(a, b) == IsNumber(a) /\ IsNumber(b) /\ a < b

\* a >= b on JavaScript values: false whenever an operand converts to NaN
JSGeq(a, b) == IsNumber(a) /\ IsNumber(b) /\ a >= b

\* the stakes the calls are made with: below the minimum, the minimum, NaN,
\* and none
StakeInputs == {vmMinimumStake - 1, vmMinimumStake, NaN, Undefined}

\* the public keys the calls are made with, by length and prefix
PublicKeyInputs ==
    {[len |-> PublicKeyLen, prefix |-> "0x"],
     [len |-> PublicKeyLen, prefix |-> "04"],
     [len |-> PublicKeyLen - 2, prefix |-> "0x"],
     [len |-> 0, prefix |-> ""]}

\* validatePublicKey without its prefix check
validatePublicKey_AnyPrefix(publicKey) ==
    publicKey.len > 0 /\ publicKey.len = PublicKeyLen

\* validatePublicKey: publicKey && publicKey.length === 130 && startsWith('0x')
validatePublicKey(publicKey) ==
    publicKey.len > 0 /\ publicKey.len = PublicKeyLen /\ publicKey.prefix = "0x"

\* map.set(key, value) and map.delete(key)
VmSet(map, key, value) ==
    [k \in DOMAIN map \cup {key} |-> IF k = key THEN value ELSE map[k]]
VmDelete(map, key) == [k \in DOMAIN map \ {key} |-> map[k]]

\* (successful / total) * 100 is computed in IEEE-754 double arithmetic.
\* For total up to 6 the result is the exact quotient except in these
\* cases, where it is the double next below (-1) or next above (1) it:
\* 1 of 3 gives 33.33333333333333, 5 of 6 gives 83.33333333333334
UptimeRounding(good, total) ==
    IF <<good, total>> \in {<<1, 3>>, <<2, 3>>, <<1, 6>>, <<2, 6>>, <<4, 6>>} THEN -1
    ELSE IF <<good, total>> = <<5, 6>> THEN 1
    ELSE 0

\* uptime computed from the failures instead of the successes
Uptime_OfFailures(good, total) ==
    <<(total - good) * 100, total, UptimeRounding(total - good, total)>>

\* perf.uptime = (perf.successfulBatches / perf.totalBatches) * 100, kept as
\* <<numerator, denominator, rounding>>: the double that is the quotient
\* numerator / denominator, or the double next to it
Uptime(good, total) == <<good * 100, total, UptimeRounding(good, total)>>

\* the performance object of a new validator
NewPerformance ==
    [totalBatches |-> 0, successfulBatches |-> 0, failedBatches |-> 0,
     uptime |-> <<100, 1, 0>>]

RECURSIVE PerformanceCalls(_, _)
\* the updatePerformance calls recorded for the addresses of S
PerformanceCalls(perf, S) ==
    IF S = {} THEN 0
    ELSE LET a == CHOOSE x \in S : TRUE IN
         perf[a].totalBatches + PerformanceCalls(perf, S \ {a})

\* getStake(address): this.stakes.get(address) || 0
getStake(address) ==
    IF /\ address \in DOMAIN vmStakes
       /\ IsNumber(vmStakes[address])
       /\ vmStakes[address] # 0
    THEN vmStakes[address] ELSE 0

VmCall(op, address, res) == [op |-> op, address |-> address, res |-> res]

ValidatorInit ==
    /\ vnow = 0
    /\ vmValidators = <<>>
    /\ vmStakes = <<>>
    /\ vmPerformance = <<>>
    /\ vmLast = VmCall("none", "a1", "none")

\* time passes between two calls
VM_Tick ==
    /\ vnow < MaxVTime
    /\ vnow' = vnow + 1
    /\ UNCHANGED <<vmValidators, vmStakes, vmPerformance, vmLast>>
    /\ UNCHANGED notValidator

\* registerValidator(address, publicKey, stake)
VM_registerValidator(address, publicKey, stake) ==
    LET why == IF address \in DOMAIN vmValidators THEN "already registered"
               ELSE IF JSLess(stake, vmMinimumStake) THEN "insufficient stake"
               ELSE IF ~validatePublicKey(publicKey) THEN "invalid public key"
               ELSE "ok"
    IN
    /\ IF why = "ok"
       THEN /\ vmValidators' = VmSet(vmValidators, address,
                    [publicKey |-> publicKey, stake |-> stake,
                     registeredAt |-> vnow, isActive |-> TRUE])
            /\ vmStakes' = VmSet(vmStakes, address, stake)
            /\ vmPerformance' = VmSet(vmPerformance, address, NewPerformance)
       ELSE UNCHANGED <<vmValidators, vmStakes, vmPerformance>>
    \* stake.toString() in the log call after the three writes
    /\ vmLast' = VmCall("registerValidator", address,
                    IF why = "ok" /\ stake = Undefined THEN "threw" ELSE why)
    /\ UNCHANGED vnow
    /\ UNCHANGED notValidator

\* unregisterValidator(address)
VM_unregisterValidator(address) ==
    /\ IF address \in DOMAIN vmValidators
       THEN /\ vmValidators' = VmDelete(vmValidators, address)
            /\ vmStakes' = VmDelete(vmStakes, address)
            /\ vmPerformance' = VmDelete(vmPerformance, address)
            /\ vmLast' = VmCall("unregisterValidator", address, "ok")
       ELSE /\ UNCHANGED <<vmValidators, vmStakes, vmPerformance>>
            /\ vmLast' = VmCall("unregisterValidator", address, "not found")
    /\ UNCHANGED vnow
    /\ UNCHANGED notValidator

\* updateStake(address, newStake)
VM_updateStake(address, newStake) ==
    LET why == IF address \notin DOMAIN vmValidators THEN "not found"
               ELSE IF JSLess(newStake, vmMinimumStake) THEN "insufficient stake"
               ELSE "ok"
    IN
    /\ IF why = "ok"
       THEN /\ vmValidators' = [vmValidators EXCEPT ![address].stake = newStake]
            /\ vmStakes' = VmSet(vmStakes, address, newStake)
       ELSE UNCHANGED <<vmValidators, vmStakes>>
    \* oldStake.toString() and newStake.toString() in the log call after
    \* the two writes
    /\ vmLast' = VmCall("updateStake", address,
                    IF why = "ok" /\ Undefined \in {vmValidators[address].stake, newStake}
                    THEN "threw" ELSE why)
    /\ UNCHANGED <<vnow, vmPerformance>>
    /\ UNCHANGED notValidator

\* updatePerformance(address, success); it returns nothing and throws nothing
VM_updatePerformance(address, success) ==
    /\ IF address \in DOMAIN vmPerformance
       THEN LET perf == vmPerformance[address]
                total == perf.totalBatches + 1
                good == perf.successfulBatches + (IF success THEN 1 ELSE 0)
            IN
            /\ PerformanceCalls(vmPerformance, DOMAIN vmPerformance) < MaxPerf
            /\ vmPerformance' = [vmPerformance EXCEPT ![address] =
                    [totalBatches |-> total,
                     successfulBatches |-> good,
                     failedBatches |-> perf.failedBatches + (IF success THEN 0 ELSE 1),
                     uptime |-> Uptime(good, total)]]
       ELSE UNCHANGED vmPerformance
    /\ vmLast' = VmCall("updatePerformance", address, "ok")
    /\ UNCHANGED <<vnow, vmValidators, vmStakes>>
    /\ UNCHANGED notValidator

ValidatorNext ==
    \/ VM_Tick
    \/ \E address \in VmAddrs, publicKey \in PublicKeyInputs, stake \in StakeInputs :
            VM_registerValidator(address, publicKey, stake)
    \/ \E address \in VmAddrs : VM_unregisterValidator(address)
    \/ \E address \in VmAddrs, newStake \in StakeInputs :
            VM_updateStake(address, newStake)
    \/ \E address \in VmAddrs, success \in BOOLEAN :
            VM_updatePerformance(address, success)

(***************************************************************************)
(* CrossChainBridge deposits (part_003 122-245).  deposit runs without     *)
(* interruption through submitDepositToLayer1 into processDepositOnLayer2  *)
(* up to `await this.verifyDepositProof(...)`; the rest runs later.  Each  *)
(* record keeps the statuses assigned to it, in order, in trail.           *)
(***************************************************************************)
\* an amount that ethers.parseEther cannot parse
Unparsable == -1

\* the amounts deposit is called with, after parseEther
DepositAmounts ==
    {Unparsable, minDepositAmount - 1, minDepositAmount,
     maxDepositAmount, maxDepositAmount + 1}

\* deposit's validation without the upper limit
DepositReject_NoMax(amount) ==
    IF amount = Unparsable THEN "invalid amount"
    ELSE IF amount < minDepositAmount THEN "too small"
    ELSE "none"

\* deposit's validation: parseEther, then the two limits
DepositReject(amount) ==
    IF amount = Unparsable THEN "invalid amount"
    ELSE IF amount < minDepositAmount THEN "too small"
    ELSE IF amount > maxDepositAmount THEN "too large"
    ELSE "none"

\* ethers.keccak256(...) returns '0x' followed by 64 hex digits
generateDepositProof == KeccakLen

\* verifyDepositProof: proof && proof.length === 66
verifyDepositProof(proof) == proof # NoProof /\ proof = KeccakLen

\* deposit.status = st
Assign(d, st) == [d EXCEPT !.status = st, !.trail = Append(@, st)]

\* a catch block that puts the deposit back to pending
DepositCatch_Retry(d) == Assign(d, "pending")

\* the catch blocks of submitDepositToLayer1 and processDepositOnLayer2
DepositCatch(d) == Assign(d, "failed")

DepositCall(n, amount, res) == [n |-> n, amount |-> amount, res |-> res]

DepositInit ==
    /\ deposits = <<>>
    /\ dLast = DepositCall(0, Unparsable, "none")

\* deposit(userAddress, tokenAddress, amount) up to its first await.
\* tokenOk: tokenAddress is an address encodeFunctionData accepts;
\* userOk: userAddress is a value JSON.stringify accepts
Deposit(amount, tokenOk, userOk) ==
    /\ Len(deposits) < MaxDeposits
    /\ dLast.n < MaxDepositCalls
    /\ LET why == DepositReject(amount)
           encoded == bridgeReady /\ tokenOk
           d0 == [status |-> "pending", amount |-> amount, timestamp |-> bnow,
                  layer1TxHash |-> 0, layer2TxHash |-> 0, proof |-> NoProof,
                  trail |-> <<"pending">>, pc |-> "done",
                  stagesOk |-> (encoded /\ userOk), returned |-> "none"]
           d1 == [Assign(d0, "confirmed") EXCEPT !.layer1TxHash = bRand + 1]
           d == IF ~encoded THEN DepositCatch(d0)
                ELSE IF ~userOk THEN DepositCatch(d1)
                ELSE [d1 EXCEPT !.proof = generateDepositProof, !.pc = "await"]
       IN
       IF why # "none"
       THEN /\ dLast' = DepositCall(dLast.n + 1, amount, why)
            /\ UNCHANGED <<deposits, bRand>>
       ELSE /\ deposits' = Append(deposits, d)
            /\ bRand' = IF encoded THEN bRand + 1 ELSE bRand
            /\ dLast' = DepositCall(dLast.n + 1, amount,
                            IF d.pc = "await" THEN "suspended" ELSE "failed")
    /\ UNCHANGED <<bnow, bridgeReady, withdrawals, bridgeEvents, cwCalls, cwLast>>
    /\ UNCHANGED notDeposit

\* processDepositOnLayer2 after its await: the proof verdict, the mint,
\* status 'completed', the event.  A throw here is caught twice, by
\* processDepositOnLayer2 and by submitDepositToLayer1.  Otherwise deposit
\* returns { depositId, status: 'pending' }; returned is history, the status
\* in the result of the call that made the record ("none": it threw).
DepositResume(i) ==
    /\ i \in DOMAIN deposits
    /\ deposits[i].pc = "await"
    /\ LET d == deposits[i] IN
       IF ~verifyDepositProof(d.proof)
       THEN /\ deposits' = [deposits EXCEPT ![i] =
                    [DepositCatch(DepositCatch(d)) EXCEPT !.pc = "done"]]
            /\ UNCHANGED <<bRand, bridgeEvents>>
       ELSE /\ deposits' = [deposits EXCEPT ![i] =
                    [Assign(d, "completed") EXCEPT
                        !.layer2TxHash = bRand + 1, !.pc = "done",
                        !.returned = "pending"]]
            /\ bRand' = bRand + 1
            /\ bridgeEvents' =
                    addBridgeEvent(bridgeEvents, "deposit_completed", i, bnow)
    /\ UNCHANGED <<bnow, bridgeReady, withdrawals, cwCalls, cwLast, dLast>>
    /\ UNCHANGED notDeposit

DepositNext ==
    \/ \E ok \in BOOLEAN : BridgeInitialize(ok)
    \/ \E amount \in DepositAmounts, tokenOk \in BOOLEAN, userOk \in BOOLEAN :
            Deposit(amount, tokenOk, userOk)
    \/ \E i \in 1..MaxDeposits : DepositResume(i)

(***************************************************************************)
(* addBridgeEvent (part_003 473-486) on its own: the list is filled by     *)
(* EvFill appends and then appended to step by step.  An event's id is its *)
(* number in the order of appending.                                       *)
(***************************************************************************)
\* the event types the code appends
EventTypes == {"deposit_completed", "withdrawal_initiated", "withdrawal_completed"}

\* the list after n appends of one type, for n up to EventCap: n pushes
EvFill(n) ==
    [k \in 1..n |-> [type |-> "deposit_completed", id |-> k, timestamp |-> 0]]

EventsIdle ==
    /\ evRing = <<>>
    /\ evLog = <<>>

\* an empty list, or one that is one short of the cap
EventsInit ==
    \E n \in {0, EventCap - 1} :
        /\ evRing = EvFill(n)
        /\ evLog = EvFill(n)

\* this.addBridgeEvent(type, data)
EvAppend(type) ==
    /\ \/ Len(evLog) < MaxEvSteps
       \/ Len(evLog) >= EventCap - 1 /\ Len(evLog) < EventCap - 1 + MaxEvSteps
    /\ evRing' = addBridgeEvent(evRing, type, Len(evLog) + 1, 0)
    /\ evLog' = Append(evLog, [type |-> type, id |-> Len(evLog) + 1, timestamp |-> 0])
    /\ UNCHANGED notEvents

EventsNext == \E type \in EventTypes : EvAppend(type)

(***************************************************************************)
(* BridgeContract (BridgeContract.sol, first contract).  A transaction     *)
(* runs in a block whose timestamp is the previous one or a later one; a   *)
(* failed require reverts it, which leaves the state as it was.  The       *)
(* contract is deployed with layer2Bridge = "l2" and is never paused;      *)
(* address(0), which stands for ETH, is "eth".  The keccak256 of a packed  *)
(* tuple is the tuple.                                                     *)
(***************************************************************************)
minimumDeposit == 1
maximumDeposit == 2

BCInit ==
    /\ btime = 0
    /\ supportedTokens = {}
    /\ tokenBalances = [t \in {"eth", "tok"} |-> 0]
    /\ bcHoldings = [t \in {"eth", "tok"} |-> 0]
    /\ depositCounter = 0
    /\ bcWithdrawals = <<>>

\* addSupportedToken(token) onlyOwner validToken(token)
BC_addSupportedToken(sender, token, dt) ==
    /\ btime + dt <= MaxBTime
    /\ btime' = btime + dt
    /\ supportedTokens' =
            IF sender = Owner /\ token # "eth" /\ token \notin supportedTokens
            THEN supportedTokens \cup {token} ELSE supportedTokens
    /\ UNCHANGED <<tokenBalances, bcHoldings, depositCounter, bcWithdrawals>>
    /\ UNCHANGED notBC

\* depositETH() payable: msg.value reaches the contract with the call
BC_depositETH(value, dt) ==
    /\ btime + dt <= MaxBTime
    /\ depositCounter < MaxBDeposits
    /\ btime' = btime + dt
    /\ IF value > 0 /\ value >= minimumDeposit /\ value <= maximumDeposit
       THEN /\ bcHoldings' = [bcHoldings EXCEPT !["eth"] = @ + value]
            /\ tokenBalances' = [tokenBalances EXCEPT !["eth"] = @ + value]
            /\ depositCounter' = depositCounter + 1
       ELSE UNCHANGED <<bcHoldings, tokenBalances, depositCounter>>
    /\ UNCHANGED <<supportedTokens, bcWithdrawals>>
    /\ UNCHANGED notBC

\* depositToken(token, amount); funded: safeTransferFrom finds the allowance
\* and the balance of the sender
BC_depositToken(token, amount, funded, dt) ==
    /\ btime + dt <= MaxBTime
    /\ depositCounter < MaxBDeposits
    /\ btime' = btime + dt
    /\ IF /\ token # "eth"
          /\ amount >= minimumDeposit /\ amount <= maximumDeposit
          /\ token \in supportedTokens
          /\ funded
       THEN /\ bcHoldings' = [bcHoldings EXCEPT ![token] = @ + amount]
            /\ tokenBalances' = [tokenBalances EXCEPT ![token] = @ + amount]
            /\ depositCounter' = depositCounter + 1
       ELSE UNCHANGED <<bcHoldings, tokenBalances, depositCounter>>
    /\ UNCHANGED <<supportedTokens, bcWithdrawals>>
    /\ UNCHANGED notBC

\* completeWithdrawal(user, token, amount, proof) with verifyWithdrawalProof:
\* the proof must be keccak256(user, token, amount, block.timestamp -
\* withdrawalDelay); <<>> is bytes32(0).  validToken excludes address(0), so
\* only the ERC20 branch of the transfer can run.
BC_completeWithdrawal(sender, user, token, amount, proof, dt) ==
    /\ btime + dt <= MaxBTime
    /\ Len(bcWithdrawals) < MaxBWithdrawals
    /\ btime' = btime + dt
    /\ IF /\ sender = "l2"
          /\ token # "eth"
          /\ amount > 0
          /\ proof # <<>>
          /\ proof = <<user, token, amount, btime + dt>>
          /\ bcHoldings[token] >= amount
          /\ tokenBalances[token] >= amount
       THEN /\ bcWithdrawals' = Append(bcWithdrawals,
                    [user |-> user, token |-> token, amount |-> amount,
                     timestamp |-> btime + dt, isCompleted |-> TRUE,
                     proof |-> proof])
            /\ tokenBalances' = [tokenBalances EXCEPT ![token] = @ - amount]
            /\ bcHoldings' = [bcHoldings EXCEPT ![token] = @ - amount]
       ELSE UNCHANGED <<bcWithdrawals, tokenBalances, bcHoldings>>
    /\ UNCHANGED <<supportedTokens, depositCounter>>
    /\ UNCHANGED notBC

\* emergencyWithdraw(token, amount) onlyOwner
BC_emergencyWithdraw(sender, token, amount, dt) ==
    /\ btime + dt <= MaxBTime
    /\ btime' = btime + dt
    /\ bcHoldings' =
            IF sender = Owner /\ bcHoldings[token] >= amount
            THEN [bcHoldings EXCEPT ![token] = @ - amount] ELSE bcHoldings
    /\ UNCHANGED <<supportedTokens, tokenBalances, depositCounter, bcWithdrawals>>
    /\ UNCHANGED notBC

BCNext ==
    \E sender \in {Owner, "l2"}, token \in {"eth", "tok"},
       amount \in 0..(maximumDeposit + 1), dt \in 0..1 :
        \/ BC_addSupportedToken(sender, token, dt)
        \/ BC_depositETH(amount, dt)
        \/ \E funded \in BOOLEAN : BC_depositToken(token, amount, funded, dt)
        \/ \E t \in 0..MaxBTime :
                \/ BC_completeWithdrawal(sender, "u1", token, amount,
                                         <<"u1", token, amount, t>>, dt)
                \/ BC_completeWithdrawal(sender, "u1", token, amount, <<>>, dt)
        \/ BC_emergencyWithdraw(sender, token, amount, dt)

(***************************************************************************)
(* ConsensusManager (consensus.js).  Proposal ids contain proposalCounter, *)
(* which grows with every createProposal, so a proposal's id is its        *)
(* position in creation order.  Callers 1 and 2 call executeProposal; the  *)
(* other methods have no await before their return.  Time passes between   *)
(* calls: a call is made dt milliseconds after the one before it.          *)
(***************************************************************************)
votingPeriod == 604800000

ConsensusInit ==
    /\ gnow = 0
    /\ proposals = <<>>
    /\ epCalls = [c \in 1..2 |-> [pc |-> "idle", pid |-> 0, threw |-> FALSE]]
    /\ gLast = [op |-> "none", pid |-> 0, res |-> "none"]

\* createProposal(proposer, title, description, type, parameters); ballots
\* is this.votes.get(proposalId), executions counts the runs of the
\* proposal's type-specific execution (history)
createProposal(type, dt) ==
    /\ Len(proposals) < MaxProposals
    /\ gnow + dt <= MaxGTime * (votingPeriod + 1)
    /\ gnow' = gnow + dt
    /\ proposals' = Append(proposals,
            [type |-> type, status |-> "active", createdAt |-> gnow + dt,
             votingEndsAt |-> gnow + dt + votingPeriod,
             votes |-> [for |-> 0, against |-> 0, abstain |-> 0],
             totalVotes |-> 0, voters |-> {}, ballots |-> <<>>,
             executedAt |-> 0, executions |-> 0])
    /\ gLast' = [op |-> "createProposal", pid |-> Len(proposals) + 1, res |-> "ok"]
    /\ UNCHANGED epCalls
    /\ UNCHANGED notConsensus

\* vote(proposalId, voter, vote, weight)
vote(pid, voter, choice, weight, dt) ==
    /\ gnow + dt <= MaxGTime * (votingPeriod + 1)
    /\ gnow' = gnow + dt
    /\ LET why == IF pid \notin DOMAIN proposals THEN "Proposal not found"
                  ELSE IF proposals[pid].status # "active"
                  THEN "Proposal is not active"
                  ELSE IF gnow + dt > proposals[pid].votingEndsAt
                  THEN "Voting period has ended"
                  ELSE IF voter \in proposals[pid].voters
                  THEN "Already voted on this proposal"
                  ELSE IF choice \notin {"for", "against", "abstain"}
                  THEN "Invalid vote choice"
                  ELSE "ok"
       IN
       /\ proposals' =
            IF why # "ok" THEN proposals
            ELSE [proposals EXCEPT
                    ![pid].ballots = [v \in DOMAIN @ \cup {voter} |->
                        IF v = voter
                        THEN [vote |-> choice, weight |-> weight,
                              timestamp |-> gnow + dt]
                        ELSE @[v]],
                    ![pid].votes[choice] = @ + weight,
                    ![pid].totalVotes = @ + weight,
                    ![pid].voters = @ \cup {voter}]
       /\ gLast' = [op |-> "vote", pid |-> pid, res |-> why]
    /\ UNCHANGED epCalls
    /\ UNCHANGED notConsensus

\* checkProposalPassed(proposalId): forVotes / totalVotes >= 0.51, which for
\* fewer than 100 votes is forVotes * 100 >= 51 * totalVotes
checkProposalPassed(pid) ==
    /\ LET p == proposals[pid]
           passed == IF pid \notin DOMAIN proposals THEN FALSE
                     ELSE IF p.status # "active" THEN p.status = "passed"
                     ELSE IF p.totalVotes = 0 THEN FALSE
                     ELSE p.votes["for"] * 100 >= 51 * p.totalVotes
       IN
       /\ proposals' = IF pid \in DOMAIN proposals /\ p.status = "active" /\ passed
                       THEN [proposals EXCEPT ![pid].status = "passed"]
                       ELSE proposals
       /\ gLast' = [op |-> "checkProposalPassed", pid |-> pid,
                    res |-> IF passed THEN "true" ELSE "false"]
    /\ UNCHANGED <<gnow, epCalls>>
    /\ UNCHANGED notConsensus

\* executeProposal(proposalId) by caller c, up to
\* await this.executeProposalByType(proposal): the two checks, and the body
\* of executeProposalByType with the type-specific execution, which run
\* before the await suspends the call.  An unknown type rejects the awaited
\* promise.
executeProposal(c, pid) ==
    /\ epCalls[c].pc = "idle"
    /\ LET why == IF pid \notin DOMAIN proposals THEN "Proposal not found"
                  ELSE IF proposals[pid].status # "passed"
                  THEN "Proposal has not passed"
                  ELSE "ok"
           known == proposals[pid].type
                        \in {"parameter_change", "upgrade", "funding", "emergency"}
       IN
       IF why # "ok"
       THEN /\ gLast' = [op |-> "executeProposal", pid |-> pid, res |-> why]
            /\ UNCHANGED <<proposals, epCalls>>
       ELSE /\ proposals' = IF known
                            THEN [proposals EXCEPT ![pid].executions = @ + 1]
                            ELSE proposals
            /\ epCalls' = [epCalls EXCEPT ![c] =
                                [pc |-> "await", pid |-> pid, threw |-> ~known]]
            /\ UNCHANGED gLast
    /\ UNCHANGED gnow
    /\ UNCHANGED notConsensus

\* executeProposal resumed after its await: status 'executed', executedAt,
\* the result; or the rethrown 'Unknown proposal type'
EpResume(c, dt) ==
    /\ epCalls[c].pc = "await"
    /\ gnow + dt <= MaxGTime * (votingPeriod + 1)
    /\ gnow' = gnow + dt
    /\ LET pid == epCalls[c].pid IN
       IF epCalls[c].threw
       THEN /\ gLast' = [op |-> "executeProposal", pid |-> pid,
                         res |-> "Unknown proposal type"]
            /\ UNCHANGED proposals
       ELSE /\ proposals' = [proposals EXCEPT ![pid].status = "executed",
                                              ![pid].executedAt = gnow + dt]
            /\ gLast' = [op |-> "executeProposal", pid |-> pid, res |-> "ok"]
    /\ epCalls' = [epCalls EXCEPT ![c] = [pc |-> "idle", pid |-> 0, threw |-> FALSE]]
    /\ UNCHANGED notConsensus

ConsensusNext ==
    \E pid \in 1..(MaxProposals + 1), c \in 1..2, dt \in {0, votingPeriod + 1} :
        \/ \E type \in {"upgrade", "other"} : createProposal(type, dt)
        \/ \E voter \in {"x", "y"}, choice \in {"for", "against", "abstain", "maybe"} :
                vote(pid, voter, choice, 1, dt)
        \/ checkProposalPassed(pid)
        \/ executeProposal(c, pid)
        \/ EpResume(c, dt)

(***************************************************************************)
(* Specifications, one per component.                                      *)
(***************************************************************************)
InitMerkle == MerkleInit /\ BridgeInit /\ ContractIdle /\ RollupInit /\ ValidatorInit /\ DepositInit /\ EventsIdle /\ BCInit /\ ConsensusInit
SpecMerkle == InitMerkle /\ [][MerkleNext]_vars

InitBridge == MerkleIdle /\ BridgeInit /\ ContractIdle /\ RollupInit /\ ValidatorInit /\ DepositInit /\ EventsIdle /\ BCInit /\ ConsensusInit
SpecBridge == InitBridge /\ [][BridgeNext]_vars

InitContract == MerkleIdle /\ BridgeInit /\ ContractInit /\ RollupInit /\ ValidatorInit /\ DepositInit /\ EventsIdle /\ BCInit /\ ConsensusInit
SpecContract == InitContract /\ [][ContractNext]_vars

InitRollup == MerkleIdle /\ BridgeInit /\ ContractIdle /\ RollupInit /\ ValidatorInit /\ DepositInit /\ EventsIdle /\ BCInit /\ ConsensusInit
SpecRollup == InitRollup /\ [][RollupNext]_vars

InitValidator ==
    MerkleIdle /\ BridgeInit /\ ContractIdle /\ RollupInit /\ ValidatorInit /\ DepositInit /\ EventsIdle /\ BCInit /\ ConsensusInit
SpecValidator == InitValidator /\ [][ValidatorNext]_vars

InitDeposit ==
    MerkleIdle /\ BridgeInit /\ ContractIdle /\ RollupInit /\ ValidatorInit /\ DepositInit /\ EventsIdle /\ BCInit /\ ConsensusInit
SpecDeposit == InitDeposit /\ [][DepositNext]_vars

InitEvents ==
    MerkleIdle /\ BridgeInit /\ ContractIdle /\ RollupInit /\ ValidatorInit /\ DepositInit /\ EventsInit /\ BCInit /\ ConsensusInit
SpecEvents == InitEvents /\ [][EventsNext]_vars

InitBC ==
    MerkleIdle /\ BridgeInit /\ ContractIdle /\ RollupInit /\ ValidatorInit /\ DepositInit /\ EventsIdle /\ BCInit /\ ConsensusInit
SpecBC == InitBC /\ [][BCNext]_vars

InitConsensus ==
    MerkleIdle /\ BridgeInit /\ ContractIdle /\ RollupInit /\ ValidatorInit /\ DepositInit /\ EventsIdle /\ BCInit /\ ConsensusInit
SpecConsensus == InitConsensus /\ [][ConsensusNext]_vars

\* RollupManager with its scheduling: the continuation of a settled await
\* always runs; calls from outside may or may not come, and the code sets
\* no timer
SpecRollupLive ==
    /\ InitRollup
    /\ [][RollupNext]_vars
    /\ WF_vars(\E c \in RmCallers : CbAfterRoots(c))
    /\ WF_vars(\E c \in RmCallers : RmReturn(c))

(***************************************************************************)
(* Claims about CrossChainBridge.completeWithdrawal, under SpecBridge.      *)
(***************************************************************************)
\* the withdrawal_completed events of withdrawal wid
CompletedEvents(wid) ==
    {i \in 1..Len(bridgeEvents) :
        bridgeEvents[i].type = "withdrawal_completed" /\ bridgeEvents[i].id = wid}

\* C1: for a completeWithdrawal call that no other call on the same
\* withdrawal overlapped: made while now < unlockTime it fails; made at
\* now >= unlockTime on a burned withdrawal with a valid proof it succeeds
\* and the withdrawal is completed; made on a completed withdrawal it fails.
\* A withdrawal_completed event is never stamped before the unlockTime.
C1_CompleteOnceAfterUnlock ==
    /\ (cwLast.wid \in DOMAIN withdrawals /\ ~cwLast.ovl) =>
        LET w == withdrawals[cwLast.wid] IN
        /\ cwLast.at < w.unlockTime => cwLast.res # "ok"
        /\ (/\ cwLast.at >= w.unlockTime
            /\ cwLast.was = "burned"
            /\ verifyWithdrawalProof(w.proof))
            => (cwLast.res = "ok" /\ w.status = "completed")
        /\ cwLast.was = "completed" => cwLast.res # "ok"
    /\ \A i \in 1..Len(bridgeEvents) :
        bridgeEvents[i].type = "withdrawal_completed"
            => bridgeEvents[i].timestamp >= withdrawals[bridgeEvents[i].id].unlockTime

\* C1 happens: after a successful completion, a later call that nothing
\* overlapped was made on the same withdrawal past its unlockTime and failed
C1_Witness ==
    /\ cwLast.wid \in DOMAIN withdrawals
    /\ ~cwLast.ovl
    /\ cwLast.was = "completed"
    /\ cwLast.res = "not ready"
    /\ cwLast.at >= withdrawals[cwLast.wid].unlockTime
    /\ CompletedEvents(cwLast.wid) # {}

\* C2: overlapping completeWithdrawal calls on one withdrawal complete it at
\* most once: no withdrawal has more than one withdrawal_completed event, and
\* a call that returns success returns the reference the withdrawal holds
C2_OverlapCompletesOnce ==
    /\ \A wid \in DOMAIN withdrawals : Cardinality(CompletedEvents(wid)) <= 1
    /\ (cwLast.res = "ok" /\ cwCalls = [c \in BridgeCallers |-> IdleCall])
        => withdrawals[cwLast.wid].layer1TxHash = cwLast.layer1TxHash

(***************************************************************************)
(* Claims about RollupContract, under SpecContract.                        *)
(***************************************************************************)
\* the step is a finalizeBatch transaction on an existing batch
FinalizeStep == cLast'.op = "finalizeBatch" /\ validBatchIndex(cLast'.idx)

\* a finalizeBatch step made inside the challenge window fails and changes
\* nothing; one made on a finalized batch fails
FinalizeFails ==
    LET batch == cBatches[cLast'.idx + 1] IN
    /\ ctime <= batch.timestamp + challengePeriod
        => (~cLast'.ok /\ cBatches' = cBatches /\ currentStateRoot' = currentStateRoot)
    /\ batch.isFinalized => (~cLast'.ok /\ cBatches' = cBatches)

\* C3 as stated: finalizeBatch fails inside the window and leaves the batch
\* unchanged; on an unchallenged batch not finalized yet, a call after the
\* window succeeds; a call on a finalized batch fails
C3_FinalizeOnceAfterWindow ==
    [][FinalizeStep =>
        LET batch == cBatches[cLast'.idx + 1] IN
        /\ FinalizeFails
        /\ (/\ ctime > batch.timestamp + challengePeriod
            /\ ~batch.isChallenged
            /\ ~batch.isFinalized)
            => (cLast'.ok /\ cBatches'[cLast'.idx + 1].isFinalized)]_vars

\* C3 with the pause taken into account: the call after the window succeeds
\* when the contract is not paused, and fails when it is paused
C3_FinalizeOnceAfterWindowUnpaused ==
    [][FinalizeStep =>
        LET batch == cBatches[cLast'.idx + 1] IN
        /\ FinalizeFails
        /\ (/\ ctime > batch.timestamp + challengePeriod
            /\ ~batch.isChallenged
            /\ ~batch.isFinalized
            /\ ~cPaused)
            => (cLast'.ok /\ cBatches'[cLast'.idx + 1].isFinalized)
        /\ cPaused => (~cLast'.ok /\ cBatches' = cBatches)]_vars

\* C3 happens: a finalizeBatch was just rejected on an unchallenged batch
\* that an earlier call finalized after its window
C3_Witness ==
    /\ cLast.op = "finalizeBatch"
    /\ ~cLast.ok
    /\ ~cPaused
    /\ validBatchIndex(cLast.idx)
    /\ cBatches[cLast.idx + 1].isFinalized
    /\ ~cBatches[cLast.idx + 1].isChallenged
    /\ currentStateRoot = cBatches[cLast.idx + 1].stateRoot

\* C4: no batch is both challenged and finalized
C4_ChallengedNeverFinalized ==
    \A i \in 1..Len(cBatches) : ~(cBatches[i].isChallenged /\ cBatches[i].isFinalized)

\* C5: a challengeBatch that succeeded was sent by an active validator whose
\* stake is at least the current minimumStake, on a batch inside its window
C5_ChallengeNeedsStake ==
    (cLast.op = "challengeBatch" /\ cLast.ok) =>
        /\ cValidators[cLast.sender]
        /\ cValidatorStakes[cLast.sender] >= minimumStake
        /\ ctime <= cBatches[cLast.idx + 1].timestamp + challengePeriod

\* C6: the finalized batches are a prefix of the submitted batches
C6_ResolvedInOrder ==
    \A i \in 2..Len(cBatches) : cBatches[i].isFinalized => cBatches[i - 1].isFinalized

(***************************************************************************)
(* C7: Merkle proof round trip: for every non-empty leaf list and every    *)
(* valid index i, verifyProof(hashLeaf(L[i]), getProof(i), getRoot())      *)
(* returns true.                                                           *)
(***************************************************************************)
C7_ProofRoundTrip ==
    (mtLast.op = "roundtrip" /\ ~mtLast.threw) => mtLast.result = "true"


(***************************************************************************)
(* Claims about RollupManager.createBatch, under SpecRollup.               *)
(***************************************************************************)
\* H(previous root || merkleRoot || batch id) as calculateBatchRoots forms it
ChainedRoot(prevRoot, batch) ==
    JSHex(<<"K", prevRoot.val[1], batch.merkleRoot.val[1], batch.id>>)

\* C8: a createBatch of an initialized coordinator that drained a non-empty
\* queue and that no other call overlapped returns normally, has its batch
\* stored with status submitted and stateRoot = H(the root before the call
\* || merkleRoot || id), and leaves this.stateRoot equal to that stateRoot
C8_CreateBatchChainsRoot ==
    (rLast.res \in {"ok", "threw"} /\ ~rLast.ovl /\ rLast.prev.kind = "hex") =>
        /\ rLast.res = "ok"
        /\ rLast.stored.status = "submitted"
        /\ rLast.stored.stateRoot = ChainedRoot(rLast.prev, rLast.stored)
        /\ rLast.root = rLast.stored.stateRoot

\* C9: on a coordinator initialized before its first drain, at most one
\* call is between its drain and the storing of its batch; each stored
\* batch's stateRoot is chained to the stateRoot of the batch stored before
\* it (the first to the initial root), and this.stateRoot is the stateRoot
\* of the last stored batch
C9_BatchCreationExclusive ==
    ~rHist.cold =>
        /\ Cardinality({c \in RmCallers : rmCalls[c].pc = "roots"}) <= 1
        /\ \A i \in 1..Len(batches) :
            batches[i].stateRoot =
                ChainedRoot(IF i = 1 THEN JSHex(ZeroHash) ELSE batches[i - 1].stateRoot,
                            batches[i])
        /\ Len(batches) > 0 => rStateRoot = batches[Len(batches)].stateRoot

\* C10: on a coordinator initialized before its first drain, the ids given
\* to the batches formed so far are pairwise different, and once no call is
\* in flight there are as many stored batches as there were drains of a
\* non-empty queue
C10_BatchIdsUnique ==
    ~rHist.cold =>
        /\ \A i, j \in 1..Len(rHist.formed) :
            i # j => rHist.formed[i] # rHist.formed[j]
        /\ RmInFlight = {} => Len(batches) = rHist.drains

\* the transactions of the first n stored batches, in the order the batches
\* were stored and, inside a batch, in the batch's order
RECURSIVE BatchedTransactions(_, _)
BatchedTransactions(map, n) ==
    IF n = 0 THEN <<>>
    ELSE BatchedTransactions(map, n - 1) \o map[n].transactions

\* C11: on a coordinator initialized before its first drain, once no call is
\* in flight, the transactions of the stored batches in creation order
\* followed by the pending queue are the queued transactions in arrival
\* order, and no stored batch holds more than batchSize transactions
C11_FifoNoLoss ==
    (~rHist.cold /\ RmInFlight = {}) =>
        /\ BatchedTransactions(batches, Len(batches)) \o pendingTransactions
            = rHist.arrived
        /\ \A i \in 1..Len(batches) : Len(batches[i].transactions) <= batchSize

\* C12: a transaction that addTransaction queues has all of from, to, value,
\* data, nonce and signature and a signature of the required length; an
\* addTransaction that rejects leaves the pending queue, the batches, the
\* batch counter and this.stateRoot unchanged
C12_RejectsMalformed ==
    [][/\ (rHist'.arrived # rHist.arrived) =>
            LET q == rHist'.arrived[Len(rHist'.arrived)] IN
            /\ \A f \in {"from", "to", "value", "data", "nonce", "signature"} :
                    q[f] # Missing
            /\ q.signature = SigLen
            /\ ~(rLast' # rLast /\ rLast'.res = "rejected")
       /\ (rLast' # rLast /\ rLast'.res = "rejected") =>
            UNCHANGED <<pendingTransactions, batches, rBatchCounter, rStateRoot,
                        rHist>>]_vars

\* C12 happens: an addTransaction was just rejected while a transaction
\* accepted earlier is still in the queue
C12_Witness ==
    /\ rLast.op = "addTransaction"
    /\ rLast.res = "rejected"
    /\ Len(pendingTransactions) = 1
    /\ rHist.arrived = pendingTransactions

\* C13: a queue of an initialized coordinator that holds transactions does
\* not keep them forever: eventually it is drained into a batch (by the
\* size threshold or by the batch timeout), also when no further
\* transaction arrives
C13_EventuallyBatched ==
    (rContract /\ pendingTransactions # <<>>) ~> (pendingTransactions = <<>>)

(***************************************************************************)
(* Claims about ValidatorManager, under SpecValidator.                     *)
(***************************************************************************)
\* C14: every registered active validator has stake >= minimumStake
C14_StakeAtLeastMinimum ==
    \A a \in DOMAIN vmValidators :
        vmValidators[a].isActive => JSGeq(vmValidators[a].stake, vmMinimumStake)

\* C15: a registerValidator call on a registered address fails; a call that
\* succeeds has a stake that is not below minimumStake and a public key of
\* 130 characters starting with 0x; a call that fails for one of these three
\* reasons leaves validators, stakes and performance as they were
C15_RegisterRejects ==
    [][(vmLast'.op = "registerValidator" /\ vnow' = vnow) =>
        LET a == vmLast'.address IN
        /\ a \in DOMAIN vmValidators => vmLast'.res = "already registered"
        /\ vmLast'.res = "ok" =>
            /\ a \notin DOMAIN vmValidators
            /\ ~JSLess(vmValidators'[a].stake, vmMinimumStake)
            /\ vmValidators'[a].publicKey.len = PublicKeyLen
            /\ vmValidators'[a].publicKey.prefix = "0x"
        /\ vmLast'.res \in {"already registered", "insufficient stake",
                            "invalid public key"} =>
            UNCHANGED <<vmValidators, vmStakes, vmPerformance>>]_vars

\* C15 happens: a second registration of a validator with recorded
\* performance was just rejected, and its performance is still there
C15_Witness ==
    /\ vmLast.op = "registerValidator"
    /\ vmLast.res = "already registered"
    /\ vmLast.address \in DOMAIN vmPerformance
    /\ vmPerformance[vmLast.address].totalBatches > 0
    /\ vmStakes[vmLast.address] = vmMinimumStake

(***************************************************************************)
(* Claims about unregistering a validator, under SpecContract.             *)
(***************************************************************************)
\* the batch is challenged and not yet finalized
OpenChallenge(batch) == batch.isChallenged /\ ~batch.isFinalized

\* C16: a validator with an open challenge stays registered with its stake.
\* challengeBatch is onlyValidator and "v1" is the one address that
\* registers, so "v1" is the challenger of every challenged batch
C16_OpenChallengeKeepsValidator ==
    (\E i \in 1..Len(cBatches) : OpenChallenge(cBatches[i])) =>
        cValidators["v1"] /\ cValidatorStakes["v1"] > 0

(***************************************************************************)
(* Claims about the withdrawal records, under SpecBridge.                  *)
(***************************************************************************)
\* the changes of a withdrawal's status that the state machine allows
WithdrawalMoves ==
    {<<"pending", "burned">>, <<"burned", "completed">>,
     <<"pending", "failed">>, <<"burned", "failed">>}

\* C19: a withdrawal's status changes only along pending -> burned ->
\* completed or to failed; a new record leaves withdraw as burned or failed;
\* a completeWithdrawal call that fails leaves every withdrawal (status and
\* settlement reference) and the event ring as they were
C19_WithdrawalStateMachine ==
    [][/\ \A i \in DOMAIN withdrawals :
            \/ withdrawals'[i].status = withdrawals[i].status
            \/ <<withdrawals[i].status, withdrawals'[i].status>> \in WithdrawalMoves
       /\ \A i \in DOMAIN withdrawals' \ DOMAIN withdrawals :
            /\ <<"pending", withdrawals'[i].status>> \in WithdrawalMoves
       /\ (cwLast' # cwLast /\ cwLast'.res \notin {"ok", "none"}) => UNCHANGED <<withdrawals, bridgeEvents>>]_vars

\* C19 happens: one withdrawal is completed, and the last call, on a
\* withdrawal that was not burned any more, failed
C19_Witness ==
    /\ \E i \in DOMAIN withdrawals : withdrawals[i].status = "completed"
    /\ cwLast.res = "not ready"
    /\ cwLast.was \in {"completed", "failed"}

\* C20: a withdrawal record is created only for an amount of at least
\* minDeposit, its unlockTime is the clock at its creation plus 604800
\* seconds, and the unlockTime of a record never changes
C20_UnlockTimeFixed ==
    [][/\ \A i \in DOMAIN withdrawals' \ DOMAIN withdrawals :
            /\ withdrawals'[i].amount >= minDepositAmount
            /\ withdrawals'[i].unlockTime = bnow' + 604800 * 1000
       /\ \A i \in DOMAIN withdrawals :
            /\ i \in DOMAIN withdrawals'
            /\ withdrawals'[i].unlockTime = withdrawals[i].unlockTime]_vars

\* C20 happens: a withdrawal made at the start was completed at its
\* unlock time, which is still the one it was created with
C20_Witness ==
    /\ Len(withdrawals) >= 1
    /\ withdrawals[1].status = "completed"
    /\ withdrawals[1].unlockTime = withdrawals[1].timestamp + 604800 * 1000
    /\ bnow >= withdrawals[1].unlockTime

(***************************************************************************)
(* Claims about deposits, under SpecDeposit.                               *)
(***************************************************************************)

\* C17: a deposit call with an amount below minDeposit or above maxDeposit
\* is rejected and leaves the deposit records and the events as they were;
\* a call with an amount in [minDeposit, maxDeposit] adds exactly one record
\* of that amount; a record whose stages all succeed is completed once its
\* call has run to the end
C17_DepositRange ==
    [][/\ (dLast'.n = dLast.n + 1) =>
            LET a == dLast'.amount IN
            /\ (a # Unparsable /\ (a < minDepositAmount \/ a > maxDepositAmount)) =>
                    /\ dLast'.res \in {"too small", "too large"}
                    /\ UNCHANGED <<deposits, bridgeEvents>>
            /\ (a >= minDepositAmount /\ a <= maxDepositAmount) =>
                    /\ Len(deposits') = Len(deposits) + 1
                    /\ SubSeq(deposits', 1, Len(deposits)) = deposits
                    /\ deposits'[Len(deposits')].amount = a
       /\ \A i \in DOMAIN deposits' :
            (deposits'[i].stagesOk /\ deposits'[i].pc = "done") =>
                deposits'[i].status = "completed"]_vars

\* C17 happens: a deposit of exactly maxDeposit is completed, and the next
\* call, with more than maxDeposit, was rejected
C17_Witness ==
    /\ Len(deposits) = 1
    /\ deposits[1].amount = maxDepositAmount
    /\ deposits[1].status = "completed"
    /\ dLast.res = "too large"
    /\ Len(bridgeEvents) = 1

\* C18: the statuses assigned to a deposit start at pending and change only
\* along pending -> confirmed -> completed or to failed from pending or
\* confirmed, so completed and failed are never left; a completed deposit
\* carries a proof of 66 characters
C18_DepositStateMachine ==
    \A i \in DOMAIN deposits :
        LET t == deposits[i].trail IN
        /\ t[1] = "pending"
        /\ deposits[i].status = t[Len(t)]
        /\ \A k \in 1..(Len(t) - 1) :
                \/ t[k + 1] = t[k]
                \/ <<t[k], t[k + 1]>> \in
                        {<<"pending", "confirmed">>, <<"confirmed", "completed">>,
                         <<"pending", "failed">>, <<"confirmed", "failed">>}
        /\ deposits[i].status = "completed" =>
                deposits[i].proof # NoProof /\ deposits[i].proof = 66

\* C18 happens: one deposit went pending, confirmed, completed and another
\* failed after it was confirmed
C18_Witness ==
    /\ \E i \in DOMAIN deposits :
            deposits[i].trail = <<"pending", "confirmed", "completed">>
    /\ \E i \in DOMAIN deposits :
            deposits[i].trail = <<"pending", "confirmed", "failed">>

\* C21: a completeWithdrawal call on an unknown id reports not found; on a
\* withdrawal whose status is not burned, not ready (whatever the clock);
\* on a burned withdrawal before its unlockTime, still locked; a call that
\* passed these three ends ok or with invalid proof, the latter only for a
\* proof that fails verification
C21_FailureReasonsInOrder ==
    cwLast.res # "none" =>
        /\ cwLast.was = "none" <=> cwLast.res = "not found"
        /\ cwLast.was \notin {"none", "burned"} <=> cwLast.res = "not ready"
        /\ cwLast.was = "burned" =>
            /\ cwLast.at < withdrawals[cwLast.wid].unlockTime
                    <=> cwLast.res = "still locked"
            /\ cwLast.at >= withdrawals[cwLast.wid].unlockTime
                    => cwLast.res \in {"ok", "invalid proof"}
            /\ cwLast.res = "invalid proof"
                    => withdrawals[cwLast.wid].proof # 66

\* C21 happens: a call on a burned withdrawal before its unlockTime has just
\* reported still locked, next to a failed withdrawal that is locked as well
C21_Witness ==
    /\ cwLast.res = "still locked"
    /\ withdrawals[cwLast.wid].status = "burned"
    /\ bnow < withdrawals[cwLast.wid].unlockTime
    /\ \E i \in DOMAIN withdrawals : withdrawals[i].status = "failed"

(***************************************************************************)
(* Claims about the canonical state root, under SpecContract.              *)
(***************************************************************************)

\* C22: currentStateRoot changes only in a finalizeBatch that succeeds on an
\* unchallenged batch; such a call makes it that batch's stateRoot; a
\* finalizeBatch that succeeds on a challenged batch, and every other
\* transaction, leave it as it was
C22_RootOnlyByFinalize ==
    [][/\ currentStateRoot' # currentStateRoot =>
            /\ (cLast' # cLast /\ cLast'.op = "finalizeBatch" /\ cLast'.ok)
            /\ ~cBatches[cLast'.idx + 1].isChallenged
       /\ (cLast' # cLast /\ cLast'.op = "finalizeBatch" /\ cLast'.ok) =>
            LET batch == cBatches[cLast'.idx + 1] IN
            /\ ~batch.isChallenged => currentStateRoot' = batch.stateRoot
            /\ batch.isChallenged => currentStateRoot' = currentStateRoot]_vars

\* C22 happens: the first batch was challenged and then finalized, the
\* second was finalized unchallenged, and the root is the second batch's
C22_Witness ==
    /\ Len(cBatches) = 2
    /\ cBatches[1].isChallenged /\ cBatches[1].isFinalized
    /\ ~cBatches[2].isChallenged /\ cBatches[2].isFinalized
    /\ cBatches[1].stateRoot # cBatches[2].stateRoot
    /\ currentStateRoot = cBatches[2].stateRoot

(***************************************************************************)
(* Claims about the bridge events.                                         *)
(***************************************************************************)
\* C23: the event list holds at most 1000 events, and after n appends it
\* holds exactly the last min(n, 1000) appended events in their order
C23_EventRingCapped ==
    LET n == Len(evLog) IN
    /\ Len(evRing) <= 1000
    /\ evRing = SubSeq(evLog, n - (IF n < 1000 THEN n ELSE 1000) + 1, n)

\* C23 happens: more than 1000 events were appended and the oldest one kept
\* is the one appended 999 appends before the last
C23_Witness ==
    /\ Len(evLog) > 1000 + 1
    /\ Len(evRing) = 1000
    /\ evRing[1].id = Len(evLog) - 999
    /\ evRing[1000].type = "withdrawal_completed"

\* C24: once a deposit call has run to its end, the last change of the
\* record's status is followed by an event for that record (SpecDeposit,
\* where the id of an event is the index of its deposit)
C24_TransitionEmitsEvent ==
    \A i \in DOMAIN deposits :
        deposits[i].pc = "done" =>
            \E k \in DOMAIN bridgeEvents : bridgeEvents[k].id = i

(***************************************************************************)
(* Claims about the commitments of a batch, under SpecRollup.              *)
(***************************************************************************)
\* the transactions of a batch as they were submitted, without the id,
\* timestamp and status that addTransaction added
Submitted(batch) ==
    [i \in 1..Len(batch.transactions) |->
        [f \in {"from", "to", "value", "data", "nonce", "signature"} |->
            batch.transactions[i][f]]]

\* C25: two batches formed from the same root and the same ordered list of
\* submitted transactions have the same merkleRoot and the same stateRoot
C25_CommitmentsDeterministic ==
    \A c, d \in RmInFlight :
        (/\ rmCalls[c].prev = rmCalls[d].prev
         /\ Submitted(rmCalls[c].batch) = Submitted(rmCalls[d].batch))
        => /\ rmCalls[c].batch.merkleRoot = rmCalls[d].batch.merkleRoot
           /\ rmCalls[c].batch.stateRoot = rmCalls[d].batch.stateRoot

(***************************************************************************)
(* Claims about the Merkle tree, under SpecMerkle.                         *)
(***************************************************************************)
\* C26: for a tree built over two or more pairwise distinct leaves, the
\* tree built over any other order of the same leaves has another root
C26_ReorderChangesRoot ==
    LET n == Len(mtLeaves) IN
    (/\ n >= 2
     /\ mtRoot = TreeRoot(mtLeaves)
     /\ \A i, j \in 1..n : i # j => mtLeaves[i] # mtLeaves[j])
    => \A p \in [1..n -> 1..n] :
            (/\ \A i, j \in 1..n : i # j => p[i] # p[j]
             /\ \E i \in 1..n : p[i] # i)
            => TreeRoot([i \in 1..n |-> mtLeaves[p[i]]]) # mtRoot

\* C27: for any two nodes l and r of the tree, hashNodes(l, r) equals
\* hashNodes(r, l), and both are the hash of the smaller followed by the
\* larger
C27_HashNodesSymmetric ==
    LET nodes == {mtLeaves[i] : i \in DOMAIN mtLeaves}
                 \cup {NextLevel(mtLeaves)[k] : k \in DOMAIN NextLevel(mtLeaves)}
    IN
    \A l, r \in nodes :
        /\ hashNodes(l, r) = hashNodes(r, l)
        /\ hashNodes(l, r) = IF HLess(l, r) THEN <<"N", l, r>> ELSE <<"N", r, l>>
        /\ ~(HLess(l, r) /\ HLess(r, l))
        /\ l # r => (HLess(l, r) \/ HLess(r, l))

\* C27 happens: a tree whose first leaf is larger than its second, so that
\* the pair was swapped before hashing
C27_Witness ==
    /\ Len(mtLeaves) = 3
    /\ HLess(mtLeaves[2], mtLeaves[1])
    /\ mtRoot = JSArray(<<hashNodes(<<"N", mtLeaves[2], mtLeaves[1]>>,
                                    <<"N", mtLeaves[3], mtLeaves[3]>>)>>)

\* C28: getRoot() is null for no leaf, the leaf's hash for one leaf, and
\* for two or more leaves the one hash at the top of the levels built over
\* the leaves, a string like every node
C28_RootIsOneHash ==
    LET n == Len(mtLeaves) IN
    /\ n = 0 => mtRoot = JSNull
    /\ n = 1 => mtRoot = JSString(mtLeaves[1])
    /\ n >= 2 => LET levels == BuildLevels(mtLeaves) IN
                 mtRoot = JSString(levels[Len(levels)][1])

\* C29: once calculateBatchRoots has run on a batch of two transactions
\* with commitments hA and hB, the batch's merkleRoot is the pair hash of hA
\* and hB themselves and its stateRoot the hash of the previous root, the
\* merkleRoot and the batch id (SpecRollup)
C29_TwoTransactionRoots ==
    \A c \in RmInFlight :
        LET batch == rmCalls[c].batch IN
        (~rHist.cold /\ Len(batch.transactions) = 2) =>
            LET hA == <<"K", KeccakTx(batch.transactions[1])>>
                hB == <<"K", KeccakTx(batch.transactions[2])>>
            IN
            /\ batch.merkleRoot.val = <<hashNodes(hA, hB)>>
            /\ batch.stateRoot =
                JSHex(<<"K", rmCalls[c].prev.val[1], hashNodes(hA, hB), batch.id>>)

(***************************************************************************)
(* Claims about validator performance, under SpecValidator.                *)
(***************************************************************************)

\* the counters of every performance object add up, and an
\* updatePerformance call adds one to the total of a registered address
\* and changes nothing for an unregistered one
CountersExact ==
    /\ \A a \in DOMAIN vmPerformance' :
            vmPerformance'[a].totalBatches =
                vmPerformance'[a].successfulBatches + vmPerformance'[a].failedBatches
    /\ (vmLast'.op = "updatePerformance" /\ vnow' = vnow) =>
            LET a == vmLast'.address IN
            /\ UNCHANGED <<vmValidators, vmStakes>>
            /\ a \notin DOMAIN vmPerformance => UNCHANGED vmPerformance
            /\ a \in DOMAIN vmPerformance =>
                /\ vmPerformance'[a].totalBatches = vmPerformance[a].totalBatches + 1
                /\ \A b \in DOMAIN vmPerformance \ {a} :
                        vmPerformance'[b] = vmPerformance[b]

\* C30 as stated: the counters are exact and, for total > 0, the stored
\* uptime times total is exactly successes times 100
C30_UptimeExact ==
    [][/\ CountersExact
       /\ \A a \in DOMAIN vmPerformance' :
            LET p == vmPerformance'[a] IN
            p.totalBatches > 0 =>
                /\ p.uptime[3] = 0
                /\ p.uptime[1] * p.totalBatches
                        = p.successfulBatches * 100 * p.uptime[2]]_vars

\* C30 with the arithmetic of the code: the counters are exact; uptime is
\* the double for successes / total * 100, which times total is exactly
\* successes times 100 when successes is 0 or equals total or total is at
\* most 2, and is a neighbouring double of the quotient otherwise
C30_UptimeRounded ==
    [][/\ CountersExact
       /\ \A a \in DOMAIN vmPerformance' :
            LET p == vmPerformance'[a] IN
            p.totalBatches > 0 =>
                /\ p.uptime[1] * p.totalBatches
                        = p.successfulBatches * 100 * p.uptime[2]
                /\ (\/ p.successfulBatches \in {0, p.totalBatches}
                    \/ p.totalBatches <= 2) => p.uptime[3] = 0]_vars

\* C30 happens: one success out of three calls, stored as the double below
\* 100 / 3, after a call on an unregistered address
C30_Witness ==
    /\ vmLast.op = "updatePerformance"
    /\ vmLast.address \notin DOMAIN vmPerformance
    /\ \E a \in DOMAIN vmPerformance :
            /\ vmPerformance[a].totalBatches = 3
            /\ vmPerformance[a].successfulBatches = 1
            /\ vmPerformance[a].uptime = <<100, 3, -1>>

\* C31: once no call is in flight, every transaction that addTransaction
\* accepted is in the pending queue or inside a stored batch, also after a
\* createBatch that failed behind its drain
C31_DrainedNeverLost ==
    RmInFlight = {} =>
        \A i \in 1..Len(rHist.arrived) :
            \/ \E j \in 1..Len(pendingTransactions) :
                    pendingTransactions[j] = rHist.arrived[i]
            \/ \E b \in 1..Len(batches), j \in 1..batchSize :
                    /\ j <= Len(batches[b].transactions)
                    /\ batches[b].transactions[j] = rHist.arrived[i]

C33_WithdrawalPaidOnce ==
    \A i, j \in 1..Len(bcWithdrawals) :
        (/\ bcWithdrawals[i].user = bcWithdrawals[j].user
         /\ bcWithdrawals[i].token = bcWithdrawals[j].token
         /\ bcWithdrawals[i].amount = bcWithdrawals[j].amount
         /\ bcWithdrawals[i].proof = bcWithdrawals[j].proof) => i = j

\* C39: the recorded balance of a token never exceeds what the contract
\* holds of it
C39_RecordedWithinHoldings ==
    \A token \in {"eth", "tok"} : tokenBalances[token] <= bcHoldings[token]

\* C34: addTransaction queues every transaction that carries all six fields
\* and a signature of the required length, also one whose nonce or value is
\* 0 or whose data is empty
C34_AcceptsZeroFields ==
    \A c \in RmCallers, tx \in TxInputs :
        (/\ rmCalls[c].pc = "idle"
         /\ Len(rHist.arrived) < MaxTx
         /\ \A f \in {"from", "to", "value", "data", "nonce", "signature"} :
                tx[f] # Missing
         /\ tx.signature = SigLen)
        => ENABLED (/\ addTransaction(c, tx, 1)
                    /\ Len(rHist'.arrived) = Len(rHist.arrived) + 1)

\* C35: the status that deposit and withdraw return is the status stored
\* for the record when the call returns: a record whose call has returned
\* and which no later call has touched holds the returned status
C35_ReturnedStatusIsStored ==
    /\ \A i \in 1..Len(deposits) :
            (deposits[i].returned # "none" /\ deposits[i].pc = "done")
                => deposits[i].status = deposits[i].returned
    /\ \A wid \in 1..Len(withdrawals) :
            (withdrawals[wid].returned # "none" /\ cwLast.wid # wid
                /\ InFlight(wid) = {})
                => withdrawals[wid].status = withdrawals[wid].returned

\* C36: validators, stakes and performance have the same addresses,
\* stakes[a] is validators[a].stake, getStake(a) is 0 exactly for the
\* addresses that are not registered, and isValidator(a) is false once
\* unregisterValidator(a) has returned
C36_RegistryTablesConsistent ==
    /\ DOMAIN vmStakes = DOMAIN vmValidators
    /\ DOMAIN vmPerformance = DOMAIN vmValidators
    /\ \A a \in DOMAIN vmValidators : vmStakes[a] = vmValidators[a].stake
    /\ \A a \in VmAddrs : (getStake(a) = 0) <=> (a \notin DOMAIN vmValidators)
    /\ (vmLast.op = "unregisterValidator" /\ vmLast.res = "ok") =>
            ~(/\ vmLast.address \in DOMAIN vmValidators
              /\ vmValidators[vmLast.address].isActive)

\* C37: for every integer limit >= 0, getBridgeEvents(limit) returns at most
\* limit events, and they are the last ones of the list in append order;
\* getBridgeEvents(0) returns none
C37_GetBridgeEventsLimited ==
    \A limit \in (0..(MaxEvSteps + 1)) \cup {EventCap} :
        LET got == getBridgeEvents(evRing, limit) IN
        /\ Len(got) <= limit
        /\ Len(got) = (IF Len(evRing) < limit THEN Len(evRing) ELSE limit)
        /\ \A k \in 1..Len(got) : got[k] = evRing[Len(evRing) - Len(got) + k]

\* C38: the type-specific execution of a proposal runs at most once, under
\* any interleaving of executeProposal calls for it, and only for a proposal
\* that has passed
C38_ExecutedAtMostOnce ==
    \A pid \in 1..Len(proposals) :
        /\ proposals[pid].executions <= 1
        /\ proposals[pid].executions > 0 =>
                proposals[pid].status \in {"passed", "executed"}

=============================================================================
